---- MODULE Spec2Model ----
(***************************************************************************)
(* A model of the credential store, the process-wide write queue, the      *)
(* session/token service and the audit / notification fan-out of the       *)
(* worship-tracker server (server/utils/file-store.js,                     *)
(* server/services/credential-service.js, auth-service.js,                 *)
(* audit-service.js, notification-service.js, activity-service.js).        *)
(*                                                                         *)
(* Granularity.  Node runs one JavaScript thread; every `await` on a file  *)
(* operation is a point where other requests interleave.  A queued task    *)
(* is therefore modelled as one step that reads its snapshot and computes  *)
(* its in-memory maps (TaskStart) followed by one step per file it         *)
(* rewrites (TaskWrite, the rename of writeLinesAtomic).  The writes of a  *)
(* Promise.all group land in either order.  Reads made outside the queue   *)
(* (getUserByUsername, listAdminUsernames) are one step per file.          *)
(***************************************************************************)
EXTENDS Integers, Sequences, FiniteSets, TLC

VARIABLES
    files,        \* the text files of DATA_DIR, parsed: users, admins, primary, deact
    writeQueue,   \* the promise chain of file-store.js: every task enqueued by this process
    logs,         \* the append-only logs: activity, notif
    reader,       \* the authenticateToken call in progress, or its result
    tokens,       \* the session tokens signed so far
    audits,       \* the recordUserAction calls made so far
    sockets,      \* wsByAdmin: the registered admin connections
    resp,         \* the answer to the last request served
    config,       \* the configuration read at process start
    boot,         \* startup history: the files found at first start, the completed runs
    limits        \* the bounds in force in the specification being explored

vars == <<files, writeQueue, logs, reader, tokens, audits, sockets, resp, config, boot, limits>>
authVars == <<reader, tokens>>
auditVars == <<logs, audits, sockets>>

----------------------------------------------------------------------------
(* Bounds of the model.                                                    *)

MaxCalls == 2          \* calls enqueued after startup
MaxBootCalls == 1      \* calls enqueued after each startup, when startups are explored
MaxBoots == 2          \* startups of the server
MaxSalt == 2           \* distinct bcrypt salts

----------------------------------------------------------------------------
(* Program constants.                                                      *)

MIN_PASSWORD_LENGTH == 10
UsernameMinLen == 3
UsernameMaxLen == 80

primaryAdminUsername == "root"
primaryAdminPassword == "ChangeMe!2026"

Roles == [PRIMARY_ADMIN |-> "primary_admin", ADMIN |-> "admin", USER |-> "user"]

----------------------------------------------------------------------------
(* Inputs.                                                                 *)

RawUsernames == {"root", "ROOT", "alice", " Alice ", "bob", "al", "bo b"}
RawPasswords == {"StrongPass1!", "short"}
RawRoles == {"user", "admin", "primary_admin"}
Salts == 1..MaxSalt

toLowerCase(s) ==
    CASE s = "ROOT" -> "root"
      [] s = "Alice" -> "alice"
      [] s = " Alice " -> " alice "
      [] OTHER -> s

trim(s) ==
    CASE s = " Alice " -> "Alice"
      [] s = " alice " -> "alice"
      [] OTHER -> s

normalizeUsername(raw) == toLowerCase(trim(raw))

\* /^[a-zA-Z0-9_.@-]{3,80}$/u : the length, and no character outside the class
USERNAME_PATTERN(s) ==
    /\ Len(s) >= UsernameMinLen
    /\ Len(s) <= UsernameMaxLen
    /\ s \notin {"bo b", " alice ", " Alice "}

validateUsername(raw) == USERNAME_PATTERN(normalizeUsername(raw))

validatePassword(password) == Len(password) >= MIN_PASSWORD_LENGTH

\* bcrypt.hash(password, rounds): salted, so two hashes of one password differ
bcryptHash(password, salt) == [pw |-> password, salt |-> salt]

bcryptCompare(password, hash) == hash.pw = password

----------------------------------------------------------------------------
(* Credential maps (Map<username, {username, passwordHash}>) and sets.     *)

NoHash == [pw |-> "", salt |-> 0]
EmptyMap == [x \in {} |-> NoHash]

Has(map, u) == u \in DOMAIN map
MapSet(map, u, h) == [x \in (DOMAIN map) \cup {u} |-> IF x = u THEN h ELSE map[x]]
MapDelete(map, u) == [x \in (DOMAIN map) \ {u} |-> map[x]]

\* a record of the two-factor file
NoRecord == [secret |-> [v |-> "", plain |-> 0], enabled |-> FALSE, enabledAt |-> "null"]
EmptyRecords == [x \in {} |-> NoRecord]

EmptyStore ==
    [users |-> EmptyMap, admins |-> EmptyMap, primary |-> {}, deact |-> {},
     twofa |-> EmptyRecords]

resolveRoleForUsername(username, adminMap, primaryAdminSet, userMap) ==
    IF username \in primaryAdminSet /\ Has(adminMap, username) THEN Roles.PRIMARY_ADMIN
    ELSE IF Has(adminMap, username) THEN Roles.ADMIN
    ELSE IF Has(userMap, username) THEN Roles.USER
    ELSE "null"

----------------------------------------------------------------------------
(* The bodies of the queued tasks.  Each maps the snapshot f the task      *)
(* reads to its outcome: the error it throws (code), the in-memory maps    *)
(* it goes on to serialize (mem) and the files it rewrites, in order       *)
(* (writes: a sequence of Promise.all groups).                             *)

Throw(code, f) == [code |-> code, mem |-> f, writes |-> <<>>]

ensurePrimaryAdminRehash(adminMap, primaryAdminSet, hash) ==
    LET configuredPrimary == normalizeUsername(primaryAdminUsername)
        p1 == IF primaryAdminSet = {} THEN {configuredPrimary} ELSE primaryAdminSet
        p2 == {u \in p1 : Has(adminMap, u) \/ u = configuredPrimary}
        a2 == IF configuredPrimary \in p1
              THEN MapSet(adminMap, configuredPrimary, hash) ELSE adminMap
        p3 == IF p2 = {} THEN {configuredPrimary} ELSE p2
        a3 == IF p2 = {} THEN MapSet(a2, configuredPrimary, hash) ELSE a2
    IN [admins |-> a3, primary |-> p3]

ensurePrimaryAdminNoFallback(adminMap, primaryAdminSet, hash) ==
    LET configuredPrimary == normalizeUsername(primaryAdminUsername)
        p1 == IF primaryAdminSet = {} THEN {configuredPrimary} ELSE primaryAdminSet
        p2 == {u \in p1 : Has(adminMap, u) \/ u = configuredPrimary}
        a2 == IF configuredPrimary \in p1 /\ ~Has(adminMap, configuredPrimary)
              THEN MapSet(adminMap, configuredPrimary, hash) ELSE adminMap
    IN [admins |-> a2, primary |-> p2]

ensurePrimaryAdmin(adminMap, primaryAdminSet, hash) ==
    LET configuredPrimary == normalizeUsername(primaryAdminUsername)
        p1 == IF primaryAdminSet = {} THEN {configuredPrimary} ELSE primaryAdminSet
        p2 == {u \in p1 : Has(adminMap, u) \/ u = configuredPrimary}
        a2 == IF configuredPrimary \in p1 /\ ~Has(adminMap, configuredPrimary)
              THEN MapSet(adminMap, configuredPrimary, hash) ELSE adminMap
        p3 == IF p2 = {} THEN {configuredPrimary} ELSE p2
        a3 == IF p2 = {} /\ ~Has(a2, configuredPrimary)
              THEN MapSet(a2, configuredPrimary, hash) ELSE a2
    IN [admins |-> a3, primary |-> p3]

initializeCredentialStoreTask(t, f, salt) ==
    LET e == ensurePrimaryAdmin(f.admins, f.primary, bcryptHash(primaryAdminPassword, salt))
    IN [code |-> "OK",
        mem |-> [f EXCEPT !.admins = e.admins, !.primary = e.primary],
        writes |-> << {"admins", "primary"} >>]

\* a createUser that looks for the name in the file of the new role only
createUserTaskOwnFile(t, f, salt) ==
    LET target == IF t.role = Roles.ADMIN THEN "admins" ELSE "users"
    IN IF Has(f[target], t.username)
       THEN Throw("USER_EXISTS", f)
       ELSE [code |-> "OK",
             mem |-> [f EXCEPT ![target] = MapSet(@, t.username, bcryptHash(t.password, salt)),
                               !.deact = @ \ {t.username}],
             writes |-> << {target}, {"deact"} >>]

createUserTask(t, f, salt) ==
    LET target == IF t.role = Roles.ADMIN THEN "admins" ELSE "users"
    IN IF Has(f.users, t.username) \/ Has(f.admins, t.username)
       THEN Throw("USER_EXISTS", f)
       ELSE [code |-> "OK",
             mem |-> [f EXCEPT ![target] = MapSet(@, t.username, bcryptHash(t.password, salt)),
                               !.deact = @ \ {t.username}],
             writes |-> << {target}, {"deact"} >>]

\* an update that writes the deactivated file without the account whenever
\* it writes anything
updateUserTaskReactivating(t, f, salt) ==
    LET role == resolveRoleForUsername(t.username, f.admins, f.primary, f.users)
        target == IF role = Roles.USER THEN "users" ELSE "admins"
        hasPasswordUpdate == t.password # ""
        m1 == IF hasPasswordUpdate
              THEN [f EXCEPT ![target] = MapSet(@, t.username, bcryptHash(t.password, salt))]
              ELSE f
        m2 == IF t.isActive = "false" THEN [m1 EXCEPT !.deact = @ \cup {t.username}]
              ELSE [m1 EXCEPT !.deact = @ \ {t.username}]
    IN IF role = "null"
       THEN Throw("USER_NOT_FOUND", f)
       ELSE [code |-> "OK",
             mem |-> m2,
             writes |-> (IF hasPasswordUpdate THEN << {target} >> ELSE <<>>) \o << {"deact"} >>]

updateUserTask(t, f, salt) ==
    LET role == resolveRoleForUsername(t.username, f.admins, f.primary, f.users)
        target == IF role = Roles.USER THEN "users" ELSE "admins"
        hasPasswordUpdate == t.password # ""
        m1 == IF hasPasswordUpdate
              THEN [f EXCEPT ![target] = MapSet(@, t.username, bcryptHash(t.password, salt))]
              ELSE f
        m2 == CASE t.isActive = "true" -> [m1 EXCEPT !.deact = @ \ {t.username}]
                [] t.isActive = "false" -> [m1 EXCEPT !.deact = @ \cup {t.username}]
                [] OTHER -> m1
    IN IF role = "null"
       THEN Throw("USER_NOT_FOUND", f)
       ELSE [code |-> "OK",
             mem |-> m2,
             writes |-> (IF hasPasswordUpdate THEN << {target} >> ELSE <<>>)
                        \o (IF t.isActive # "undefined" THEN << {"deact"} >> ELSE <<>>)]

\* a deletion that leaves the deactivated file as it is
deleteUserTaskKeepingFlag(t, f, salt) ==
    LET inUsers == Has(f.users, t.username)
        inAdmins == Has(f.admins, t.username)
    IN IF t.username \in f.primary
       THEN Throw("PRIMARY_ADMIN_PROTECTED", f)
       ELSE IF ~inUsers /\ ~inAdmins
       THEN Throw("USER_NOT_FOUND", f)
       ELSE [code |-> "OK",
             mem |-> [f EXCEPT !.users = MapDelete(@, t.username),
                               !.admins = MapDelete(@, t.username)],
             writes |-> (IF inUsers THEN << {"users"} >> ELSE <<>>)
                        \o (IF inAdmins THEN << {"admins"} >> ELSE <<>>)]

deleteUserTaskUnguarded(t, f, salt) ==
    LET inUsers == Has(f.users, t.username)
        inAdmins == Has(f.admins, t.username)
    IN IF ~inUsers /\ ~inAdmins
       THEN Throw("USER_NOT_FOUND", f)
       ELSE [code |-> "OK",
             mem |-> [f EXCEPT !.users = MapDelete(@, t.username),
                               !.admins = MapDelete(@, t.username),
                               !.deact = @ \ {t.username}],
             writes |-> (IF inUsers THEN << {"users"} >> ELSE <<>>)
                        \o (IF inAdmins THEN << {"admins"} >> ELSE <<>>)
                        \o << {"deact"} >>]

deleteUserTask(t, f, salt) ==
    LET inUsers == Has(f.users, t.username)
        inAdmins == Has(f.admins, t.username)
    IN IF t.username \in f.primary
       THEN Throw("PRIMARY_ADMIN_PROTECTED", f)
       ELSE IF ~inUsers /\ ~inAdmins
       THEN Throw("USER_NOT_FOUND", f)
       ELSE [code |-> "OK",
             mem |-> [f EXCEPT !.users = MapDelete(@, t.username),
                               !.admins = MapDelete(@, t.username),
                               !.deact = @ \ {t.username}],
             writes |-> (IF inUsers THEN << {"users"} >> ELSE <<>>)
                        \o (IF inAdmins THEN << {"admins"} >> ELSE <<>>)
                        \o << {"deact"} >>]

\* a promotion that leaves the user's line in the users file
promoteUserToAdminTaskCopying(t, f, salt) ==
    IF Has(f.admins, t.username)
    THEN Throw("ALREADY_ADMIN", f)
    ELSE IF ~Has(f.users, t.username)
    THEN Throw("USER_NOT_FOUND", f)
    ELSE [code |-> "OK",
          mem |-> [f EXCEPT !.admins = MapSet(@, t.username, f.users[t.username])],
          writes |-> << {"users", "admins"} >>]

promoteUserToAdminTask(t, f, salt) ==
    IF Has(f.admins, t.username)
    THEN Throw("ALREADY_ADMIN", f)
    ELSE IF ~Has(f.users, t.username)
    THEN Throw("USER_NOT_FOUND", f)
    ELSE [code |-> "OK",
          mem |-> [f EXCEPT !.users = MapDelete(@, t.username),
                            !.admins = MapSet(@, t.username, f.users[t.username])],
          writes |-> << {"users", "admins"} >>]

----------------------------------------------------------------------------
(* The two-factor service.                                                 *)

MaxSecret == 2         \* distinct secrets generateSecret returns
Secrets == 1..MaxSecret

\* the code an authenticator shows for a secret in the current period
CodeFor(secret) == <<"111111", "222222", "333333", "444444">>[secret]
RawOtps == {"undefined", "", "   ", "111111", " 222222 ", "654321", "12ab"}

otpTrim(s) ==
    CASE s = "   " -> ""
      [] s = " 222222 " -> "222222"
      [] s = "undefined" -> ""
      [] OTHER -> s

\* validateOtp: String(rawOtp ?? "").trim() must match /^\d{6}$/
SixDigits(s) == s \in {"111111", "222222", "333333", "444444", "654321"}
validOtp(rawOtp) == SixDigits(otpTrim(rawOtp))

encryptSecret(plainSecret) == [v |-> "v1", plain |-> plainSecret]
\* a stored secret: v is "v1" for a payload that decrypts under the
\* configured key, "plain" for a secret of an older version stored without the
\* v1: prefix, and for the payloads decryptSecret answers "" for: "" (no
\* secret string in the record), "v1-cut" (a part of the payload is missing)
\* and "v1-bad" (decipher.final throws); plain is what the bytes hold
UnreadableSecrets == {"", "v1-cut", "v1-bad"}
\* a decryptSecret that returns whatever the bytes hold
decryptSecretLenient(payload) == payload.plain
decryptSecret(payload) == IF payload.v \in {"v1", "plain"} THEN payload.plain ELSE 0
verify(secret, token) == token = CodeFor(secret)

\* getTwoFactorStatus and hasTwoFactorEnabled on the records read
TwoFactorStatus(records, username) ==
    IF username \notin DOMAIN records THEN [status |-> "disabled", enabledAt |-> "null"]
    ELSE IF records[username].enabled
    THEN [status |-> "enabled", enabledAt |-> records[username].enabledAt]
    ELSE [status |-> "pending", enabledAt |-> "null"]

hasTwoFactorEnabled(records, username) ==
    username \in DOMAIN records /\ records[username].enabled

RecordSet(records, u, r) == [x \in (DOMAIN records) \cup {u} |-> IF x = u THEN r ELSE records[x]]
RecordDelete(records, u) == [x \in (DOMAIN records) \ {u} |-> records[x]]

WriteRecords(f, records) == [code |-> "OK", mem |-> [f EXCEPT !.twofa = records], writes |-> << {"twofa"} >>]

beginTwoFactorSetupTask(t, f, salt) ==
    WriteRecords(f, RecordSet(f.twofa, t.username,
        [secret |-> encryptSecret(t.secret), enabled |-> FALSE, enabledAt |-> "null"]))

enableTwoFactorUnverified(t, f, salt) ==
    IF t.username \notin DOMAIN f.twofa \/ hasTwoFactorEnabled(f.twofa, t.username)
    THEN Throw("NO_PENDING_2FA", f)
    ELSE WriteRecords(f, RecordSet(f.twofa, t.username,
            [f.twofa[t.username] EXCEPT !.enabled = TRUE, !.enabledAt = "now"]))

enableTwoFactorTask(t, f, salt) ==
    IF t.username \notin DOMAIN f.twofa \/ hasTwoFactorEnabled(f.twofa, t.username)
    THEN Throw("NO_PENDING_2FA", f)
    ELSE IF decryptSecret(f.twofa[t.username].secret) = 0
    THEN Throw("TOTP_SECRET_INVALID", f)
    ELSE IF ~verify(decryptSecret(f.twofa[t.username].secret), t.otp)
    THEN Throw("TOTP_INVALID", f)
    ELSE WriteRecords(f, RecordSet(f.twofa, t.username,
            [f.twofa[t.username] EXCEPT !.enabled = TRUE, !.enabledAt = "now"]))

disableTwoFactorTask(t, f, salt) ==
    IF ~hasTwoFactorEnabled(f.twofa, t.username)
    THEN Throw("TOTP_NOT_ENABLED", f)
    ELSE IF decryptSecret(f.twofa[t.username].secret) = 0
    THEN Throw("TOTP_SECRET_INVALID", f)
    ELSE IF ~verify(decryptSecret(f.twofa[t.username].secret), t.otp)
    THEN Throw("TOTP_INVALID", f)
    ELSE WriteRecords(f, RecordDelete(f.twofa, t.username))

cancelTwoFactorSetupTask(t, f, salt) ==
    IF t.username \in DOMAIN f.twofa /\ ~f.twofa[t.username].enabled
    THEN WriteRecords(f, RecordDelete(f.twofa, t.username))
    ELSE [code |-> "OK", mem |-> f, writes |-> <<>>]

resetTwoFactorTask(t, f, salt) == WriteRecords(f, RecordDelete(f.twofa, t.username))

\* the task of appendLine: fs.appendFile on the log
appendLineTask(t, f, salt) == [code |-> "OK", mem |-> EmptyStore, writes |-> << {t.file} >>]

RunTask(t, f, salt) ==
    CASE t.op = "init" -> initializeCredentialStoreTask(t, f, salt)
      [] t.op = "append" -> appendLineTask(t, f, salt)
      [] t.op = "2fa-setup" -> beginTwoFactorSetupTask(t, f, salt)
      [] t.op = "2fa-verify" -> enableTwoFactorTask(t, f, salt)
      [] t.op = "2fa-disable" -> disableTwoFactorTask(t, f, salt)
      [] t.op = "2fa-cancel" -> cancelTwoFactorSetupTask(t, f, salt)
      [] t.op = "2fa-reset" -> resetTwoFactorTask(t, f, salt)
      [] t.op = "create" -> createUserTask(t, f, salt)
      [] t.op = "update" -> updateUserTask(t, f, salt)
      [] t.op = "delete" -> deleteUserTask(t, f, salt)
      [] t.op = "promote" -> promoteUserToAdminTask(t, f, salt)

----------------------------------------------------------------------------
(* Reads made outside the queue.  getUserByUsername starts four readLines  *)
(* with Promise.all; each completes at its own moment.                     *)

StoreFiles == {"users", "admins", "primary", "deact"}

\* a request without a token, and a token whose signature does not verify
NoToken == [sub |-> "", mfa |-> FALSE, issuedRole |-> "none"]
ForgedToken == [sub |-> "alice", mfa |-> FALSE, issuedRole |-> "forged"]
\* partial names the log whose fs.appendFile is under way with only a part
\* of its line written
EmptyLogs == [activity |-> <<>>, notif |-> <<>>, partial |-> ""]

\* the answer to a request: status and error code, the session cookie set,
\* whether the route handler ran, and what a read of a log returned
NoRequest == [username |-> "", password |-> "", otp |-> ""]
\* req.user: what authenticateToken returns, or no user when it has thrown
NoUser == [username |-> "", role |-> "", mfaVerified |-> FALSE]
\* pc: the await an admin request is suspended at ("" once it is answered),
\* user: its req.user, task and audit: the write and the audit it waits for
\* entries: the notifications a history request returned
NoResponse ==
    [route |-> "", status |-> 0, code |-> "", cookie |-> NoToken, ran |-> FALSE,
     lines |-> 0, torn |-> FALSE, req |-> NoRequest, pc |-> "", user |-> NoUser,
     task |-> 0, audit |-> 0, entries |-> <<>>]

\* a log line: the event it records and, in the notification log, its recipient
NoLine == [event |-> 0, admin |-> ""]

\* the accounts of the admins file that are not deactivated
ActiveAdmins(f) == (DOMAIN f.admins) \ f.deact

\* seen: every set of active admins the files gave while the call was in
\* progress; quiet: no write changed the admins or the deactivated file meanwhile
ObserveAudits(as, old, new) ==
    [i \in DOMAIN as |->
        IF as[i].pc = "done" THEN as[i]
        ELSE [as[i] EXCEPT !.seen = @ \cup {ActiveAdmins(new)},
                           !.quiet = @ /\ old.admins = new.admins /\ old.deact = new.deact]]

\* what the files say of a username at one moment
Status(f, username) ==
    [role |-> resolveRoleForUsername(username, f.admins, f.primary, f.users),
     active |-> username \notin f.deact]

IdleReader ==
    [pc |-> "idle", token |-> NoToken, sub |-> "", pend |-> {}, snap |-> EmptyStore,
     code |-> "", role |-> "", hist |-> {}, hash |-> NoHash, hashes |-> {}]

\* the password hash the files hold for a username at one moment
HashOf(f, username) ==
    IF Has(f.admins, username) THEN f.admins[username]
    ELSE IF Has(f.users, username) THEN f.users[username] ELSE NoHash

\* hist: every status the files gave the reader's subject while the call was
\* in progress
Observe(r, f) ==
    IF r.pc = "reading"
    THEN [r EXCEPT !.hist = @ \cup {Status(f, r.sub)}, !.hashes = @ \cup {HashOf(f, r.sub)}]
    ELSE r

\* the record getUserByUsername builds from the maps it has read
getUserByUsername(username, snap) ==
    LET role == resolveRoleForUsername(username, snap.admins, snap.primary, snap.users)
        sourceMap == IF role = Roles.USER THEN snap.users ELSE snap.admins
    IN [found |-> role # "null", username |-> username, role |-> role,
        passwordHash |-> IF role = "null" THEN NoHash ELSE sourceMap[username],
        isActive |-> username \notin snap.deact]

----------------------------------------------------------------------------
(* The write queue: writeQueue = writeQueue.then(task, task).              *)

Task(op, username, password, role, isActive) ==
    [op |-> op, username |-> username, password |-> password, role |-> role,
     isActive |-> isActive, pc |-> "queued", code |-> "", mem |-> EmptyStore,
     writes |-> <<>>, ahead |-> 0, file |-> "", line |-> NoLine, otp |-> "", secret |-> 0,
     by |-> NoUser]

Settled(t) == t.pc \in {"ok", "err"}

\* ahead records how many earlier tasks had not settled when the task was
\* enqueued; by records the req.user of the admin request that made the call
enqueueWrite(q, task) ==
    Append(q, [task EXCEPT !.ahead = Cardinality({j \in 1..Len(q) : ~Settled(q[j])})])

CanStartUnchained(q, i) == TRUE

\* a chain without the rejection handler, writeQueue.then(task): a task is
\* called only when every task before it has succeeded
CanStartAfterSuccess(q, i) == \A j \in 1..(i - 1) : q[j].pc = "ok"

\* a chain that calls a task as soon as the task before it has been called
CanStartEager(q, i) == \A j \in 1..(i - 1) : q[j].pc # "queued"

\* the task runs when the promise of the task enqueued before it has settled,
\* fulfilled or rejected
CanStart(q, i) == \A j \in 1..(i - 1) : Settled(q[j])

TaskStart(i) ==
    /\ writeQueue[i].pc = "queued"
    /\ CanStart(writeQueue, i)
    /\ \E salt \in Salts :
         LET t == writeQueue[i]
             r == RunTask(t, files, salt)
             pc == IF r.code # "OK" THEN "err"
                   ELSE IF r.writes = <<>> THEN "ok" ELSE "running"
         IN writeQueue' = [writeQueue EXCEPT ![i] =
                [t EXCEPT !.pc = pc, !.code = r.code, !.writes = r.writes,
                          !.mem = IF pc = "running" THEN r.mem ELSE EmptyStore]]
    /\ UNCHANGED <<resp, config, files, boot, limits, authVars, auditVars>>

\* a completed run of initializeCredentialStore is counted, and the files the first
\* run leaves are remembered
RunCompleted(t, done, f) ==
    IF t.op = "init" /\ done
    THEN [boot EXCEPT !.runs = @ + 1, !.first = IF boot.runs = 0 THEN f ELSE @]
    ELSE boot

\* one writeLinesAtomic of the running task renames its temporary file over the target
TaskWrite(i) ==
    /\ writeQueue[i].pc = "running"
    /\ \E target \in Head(writeQueue[i].writes) :
         LET t == writeQueue[i]
             rest == Head(t.writes) \ {target}
             left == IF rest = {} THEN Tail(t.writes) ELSE << rest >> \o Tail(t.writes)
         IN /\ IF t.op = "append"
               THEN /\ logs' = [logs EXCEPT ![target] = Append(@, t.line), !.partial = ""]
                    /\ files' = files
               ELSE /\ files' = [files EXCEPT ![target] = t.mem[target]]
                    /\ logs' = logs
            /\ writeQueue' = [writeQueue EXCEPT ![i] =
                   [t EXCEPT !.writes = left,
                             !.pc = IF left = <<>> THEN "ok" ELSE "running",
                             !.mem = IF left = <<>> THEN EmptyStore ELSE @]]
            /\ boot' = RunCompleted(t, left = <<>>, files')
            /\ reader' = Observe(reader, files')
            /\ audits' = ObserveAudits(audits, files, files')
    /\ UNCHANGED <<resp, config, limits, tokens, sockets>>

----------------------------------------------------------------------------
(* The calls of the credential service.  index.js awaits                   *)
(* initializeCredentialStore before the server listens.                    *)

\* a call that fails validation throws before it reaches the queue: no state changes
Reject(code) == UNCHANGED vars

Listening == writeQueue # <<>> /\ Settled(writeQueue[1])
Budget ==
    Cardinality({i \in 1..Len(writeQueue) : writeQueue[i].op \notin {"init", "append"}})
        + Len(audits) < limits.calls

Called == [boot EXCEPT !.calls = TRUE]

createUser(rawUsername, password, role) ==
    /\ Listening /\ Budget
    /\ IF ~validateUsername(rawUsername) THEN
            Reject("INVALID_USERNAME")
       ELSE IF ~validatePassword(password) THEN
            Reject("WEAK_PASSWORD")
       ELSE IF role \notin {Roles.USER, Roles.ADMIN} THEN
            Reject("INVALID_ROLE")
       ELSE /\ writeQueue' = enqueueWrite(writeQueue,
                    Task("create", normalizeUsername(rawUsername), password, role, "undefined"))
            /\ boot' = Called
            /\ UNCHANGED <<resp, config, files, limits, authVars, auditVars>>

updateUser(rawUsername, password, isActive) ==
    /\ Listening /\ Budget
    /\ IF ~validateUsername(rawUsername) THEN
            Reject("INVALID_USERNAME")
       ELSE IF password # "" /\ ~validatePassword(password) THEN
            Reject("WEAK_PASSWORD")
       ELSE IF isActive = "undefined" /\ password = "" THEN
            Reject("NO_UPDATES")
       ELSE /\ writeQueue' = enqueueWrite(writeQueue,
                    Task("update", normalizeUsername(rawUsername), password, "", isActive))
            /\ boot' = Called
            /\ UNCHANGED <<resp, config, files, limits, authVars, auditVars>>

deleteUser(rawUsername) ==
    /\ Listening /\ Budget
    /\ IF ~validateUsername(rawUsername) THEN
            Reject("INVALID_USERNAME")
       ELSE /\ writeQueue' = enqueueWrite(writeQueue,
                    Task("delete", normalizeUsername(rawUsername), "", "", "undefined"))
            /\ boot' = Called
            /\ UNCHANGED <<resp, config, files, limits, authVars, auditVars>>

promoteUserToAdmin(rawUsername) ==
    /\ Listening /\ Budget
    /\ IF ~validateUsername(rawUsername) THEN
            Reject("INVALID_USERNAME")
       ELSE /\ writeQueue' = enqueueWrite(writeQueue,
                    Task("promote", normalizeUsername(rawUsername), "", "", "undefined"))
            /\ boot' = Called
            /\ UNCHANGED <<resp, config, files, limits, authVars, auditVars>>

----------------------------------------------------------------------------
(* Spec: the credential store started on an empty data directory.          *)

FirstStart(f) == [start |-> f, runs |-> 0, first |-> EmptyStore, calls |-> FALSE]

Init ==
    /\ files = EmptyStore
    /\ writeQueue = enqueueWrite(<<>>, Task("init", "", "", "", "undefined"))
    /\ boot = FirstStart(files)
    /\ limits = [calls |-> MaxCalls, boots |-> 1, audits |-> 0]
    /\ logs = EmptyLogs /\ audits = <<>> /\ sockets = {}
    /\ reader = IdleReader /\ tokens = {}
    /\ resp = NoResponse /\ config = [admin2faEnforce |-> FALSE]

Next ==
    \/ \E i \in 1..Len(writeQueue) : TaskStart(i)
    \/ \E i \in 1..Len(writeQueue) : TaskWrite(i)
    \/ \E u \in RawUsernames, p \in RawPasswords, r \in RawRoles : createUser(u, p, r)
    \/ \E u \in RawUsernames, p \in RawPasswords \cup {""},
          a \in {"undefined", "true", "false"} : updateUser(u, p, a)
    \/ \E u \in RawUsernames : deleteUser(u)
    \/ \E u \in RawUsernames : promoteUserToAdmin(u)

Spec == Init /\ [][Next]_vars

ConfiguredPrimary == normalizeUsername(primaryAdminUsername)
RoleOf(u) == resolveRoleForUsername(u, files.admins, files.primary, files.users)
Accounts == (DOMAIN files.users) \cup (DOMAIN files.admins)

----------------------------------------------------------------------------
(* Claims checked under Spec.                                              *)

Calls == 1..Len(writeQueue)
CredentialFile(t) == IF t.role = Roles.ADMIN THEN files.admins ELSE files.users

\* C2 (as claimed): at no moment does a username appear in both the users
\* file and the admins file.
C2_SetExclusivity ==
    \A u \in DOMAIN files.users : u \notin DOMAIN files.admins

\* C3: when the calls made after startup are createUser calls with pairwise
\* distinct usernames, none of them the existing account, then once all have
\* settled every call has succeeded and every username is in the credential
\* file of its role: no write is lost, however the calls interleave.
DistinctCreates ==
    /\ \A i \in Calls \ {1} : writeQueue[i].op = "create"
                              /\ writeQueue[i].username # primaryAdminUsername
    /\ \A i, j \in Calls \ {1} : i # j => writeQueue[i].username # writeQueue[j].username

C3_WriteSerialization ==
    (DistinctCreates /\ \A i \in Calls : Settled(writeQueue[i]))
        => \A i \in Calls \ {1} :
              /\ writeQueue[i].code = "OK"
              /\ Has(CredentialFile(writeQueue[i]), writeQueue[i].username)

\* two createUser calls were in the queue together and both have settled
C3_Witness ==
    /\ DistinctCreates
    /\ \A i \in Calls : Settled(writeQueue[i])
    /\ \E i \in Calls \ {1} : writeQueue[i].ahead >= 1 /\ writeQueue[i].code = "OK"

\* C4 (as claimed): at most one enqueued task executes at a time, and there
\* is never more than one file mutation (writeLinesAtomic, appendFile) in
\* flight.
InFlight(t) == IF t.pc = "running" THEN Cardinality(Head(t.writes)) ELSE 0

C4_SingleInFlightMutation ==
    /\ Cardinality({i \in Calls : writeQueue[i].pc = "running"}) <= 1
    /\ \A i \in Calls : InFlight(writeQueue[i]) <= 1

\* C5: a deleteUser task for a username of the primary-admins file fails with
\* PRIMARY_ADMIN_PROTECTED and changes none of the files.
C5_PrimaryDeleteProtected ==
    [][\A i \in Calls :
          (/\ writeQueue[i].op = "delete"
           /\ writeQueue[i].username \in files.primary
           /\ writeQueue'[i] # writeQueue[i])
          => (/\ writeQueue'[i].pc = "err"
              /\ writeQueue'[i].code = "PRIMARY_ADMIN_PROTECTED"
              /\ files' = files)]_vars

C5_Witness ==
    \E i \in Calls :
        /\ writeQueue[i].op = "delete"
        /\ writeQueue[i].username \in files.primary
        /\ writeQueue[i].code = "PRIMARY_ADMIN_PROTECTED"

----------------------------------------------------------------------------
(* SpecAuth: session tokens verified while the account they name is        *)
(* updated, deleted, created again and promoted.                           *)

AuthUsernames == {"alice"}
MaxAuthCalls == 2

\* what the login route signs once authenticateUser has accepted the account
createSessionToken(username) ==
    /\ Listening
    /\ Status(files, username).role # "null"
    /\ Status(files, username).active
    /\ tokens' = tokens \cup {[sub |-> username, mfa |-> FALSE,
                                issuedRole |-> Status(files, username).role]}
    /\ UNCHANGED <<resp, config, files, writeQueue, reader, auditVars, boot, limits>>

ReaderResult(r, code, role) ==
    [r EXCEPT !.pc = "done", !.code = code, !.role = role, !.pend = {}, !.snap = EmptyStore]

\* authenticateToken up to its await: jwt.verify, then the four reads start
authenticateToken(token) ==
    /\ Listening
    /\ reader.pc \in {"idle", "done"}
    /\ LET r == [IdleReader EXCEPT !.token = token]
       IN IF token = NoToken THEN reader' = ReaderResult(r, "MISSING_TOKEN", "")
          ELSE IF token \notin tokens THEN reader' = ReaderResult(r, "INVALID_TOKEN", "")
          ELSE reader' = [r EXCEPT !.pc = "reading", !.sub = toLowerCase(token.sub),
                                   !.pend = StoreFiles,
                                   !.hist = {Status(files, toLowerCase(token.sub))},
                                   !.hashes = {HashOf(files, toLowerCase(token.sub))}]
    /\ UNCHANGED <<resp, config, files, writeQueue, tokens, auditVars, boot, limits>>

\* one readLines of the call completes; after the last, getUserByUsername
\* returns and authenticateToken answers
TokenRead(file) ==
    /\ reader.pc = "reading"
    /\ file \in reader.pend
    /\ LET snap == [reader.snap EXCEPT ![file] = files[file]]
           user == getUserByUsername(reader.sub, snap)
       IN IF reader.pend # {file}
          THEN reader' = [reader EXCEPT !.pend = @ \ {file}, !.snap = snap]
          ELSE IF ~user.found \/ ~user.isActive
          THEN reader' = ReaderResult(reader, "USER_NOT_AVAILABLE", "")
          ELSE reader' = [ReaderResult(reader, "OK", user.role) EXCEPT
                              !.hash = user.passwordHash]
    /\ UNCHANGED <<resp, config, files, writeQueue, tokens, auditVars, boot, limits>>

InitAuth ==
    /\ \E s \in Salts :
         files = [EmptyStore EXCEPT
                    !.admins = MapSet(EmptyMap, ConfiguredPrimary,
                                      bcryptHash(primaryAdminPassword, s)),
                    !.primary = {ConfiguredPrimary},
                    !.users = MapSet(EmptyMap, "alice", bcryptHash("StrongPass1!", s))]
    /\ writeQueue = <<[Task("init", "", "", "", "undefined") EXCEPT !.pc = "ok", !.code = "OK"]>>
    /\ boot = [FirstStart(EmptyStore) EXCEPT !.runs = 1, !.first = files]
    /\ limits = [calls |-> MaxAuthCalls, boots |-> 1, audits |-> 0]
    /\ logs = EmptyLogs /\ audits = <<>> /\ sockets = {}
    /\ reader = IdleReader /\ tokens = {}
    /\ resp = NoResponse /\ config = [admin2faEnforce |-> FALSE]

NextAuth ==
    \/ \E i \in 1..Len(writeQueue) : TaskStart(i)
    \/ \E i \in 1..Len(writeQueue) : TaskWrite(i)
    \/ \E u \in AuthUsernames, r \in {Roles.USER, Roles.ADMIN} : createUser(u, "StrongPass1!", r)
    \/ \E u \in AuthUsernames, p \in {"", "StrongPass1!"},
          a \in {"undefined", "true", "false"} : updateUser(u, p, a)
    \/ \E u \in AuthUsernames : deleteUser(u)
    \/ \E u \in AuthUsernames : promoteUserToAdmin(u)
    \/ \E u \in AuthUsernames : createSessionToken(u)
    \/ \E t \in tokens \cup {NoToken, ForgedToken} : authenticateToken(t)
    \/ \E f \in StoreFiles : TokenRead(f)

SpecAuth == InitAuth /\ [][NextAuth]_vars

\* C1 (as claimed): authenticateToken succeeds on a signed token only if the
\* account exists and is active in the files at verification time, with the
\* role the files give it at that moment; an account deactivated or deleted
\* is answered USER_NOT_AVAILABLE.
C1_RoleFreshness ==
    (reader.pc = "done" /\ reader.token \in tokens) =>
        /\ reader.code \in {"OK", "USER_NOT_AVAILABLE"}
        /\ reader.code = "OK" => [role |-> reader.role, active |-> TRUE] \in reader.hist

\* C11 (as claimed): a getUserByUsername (or authenticateToken) for a regular
\* user that runs while the user is promoted answers with role user or role
\* admin and the user's unchanged password hash; it never reports the user
\* as missing.
C11_PromotionAtomicToReaders ==
    (/\ reader.pc = "done" /\ reader.token \in tokens
     /\ reader.hist = {[role |-> Roles.USER, active |-> TRUE],
                       [role |-> Roles.ADMIN, active |-> TRUE]}
     /\ Cardinality(reader.hashes) = 1) =>
        /\ reader.code = "OK"
        /\ reader.role \in {Roles.USER, Roles.ADMIN}
        /\ reader.hash \in reader.hashes

----------------------------------------------------------------------------
(* SpecAudit: audited actions recorded while admin accounts change and     *)
(* admin connections open and close.                                       *)

AuditUsernames == {"bob"}
AuditActions == {"", "prayer_logged"}
AuditSockets == {"root"}
MaxAuditCalls == 3     \* calls made: credential calls and audited actions together
MaxAudits == 2         \* recordUserAction calls among them

appendLine(q, file, line) ==
    enqueueWrite(q, [Task("append", "", "", "", "undefined") EXCEPT !.file = file, !.line = line])

RECURSIVE appendLines(_, _, _)
appendLines(q, file, lines) ==
    IF lines = <<>> THEN q
    ELSE appendLines(appendLine(q, file, Head(lines)), file, Tail(lines))

\* appendLine calls that are not awaited: the caller goes on at once
AppendedUnawaited(q, file, event) == TRUE

\* the appendLine promises of an event on a log have all fulfilled, which is
\* when the await of logUserActivity or of Promise.all returns
Appended(q, file, event) ==
    \A j \in 1..Len(q) :
        (q[j].op = "append" /\ q[j].file = file /\ q[j].line.event = event) => q[j].pc = "ok"

\* the orders in which the lines of the admins file can list a set of accounts
Orders(S) == {o \in [1..Cardinality(S) -> S] : \A a, b \in DOMAIN o : o[a] = o[b] => a = b}

\* a connection: the account it is registered under in wsByAdmin, and which
\* of the account's connections it is
Socket(username, socket) == [username |-> username, id |-> socket]

\* the connection handler of the notification channel, once authenticateToken
\* has answered with an admin role
registerSocket(username, socket) ==
    /\ Listening
    /\ Socket(username, socket) \notin sockets
    /\ Status(files, username).role \in {Roles.PRIMARY_ADMIN, Roles.ADMIN}
    /\ Status(files, username).active
    /\ sockets' = sockets \cup {Socket(username, socket)}
    /\ UNCHANGED <<resp, config, files, writeQueue, logs, audits, authVars, boot, limits>>

\* the close event of a registered connection
unregisterSocket(username, socket) ==
    /\ Socket(username, socket) \in sockets
    /\ sockets' = sockets \ {Socket(username, socket)}
    /\ UNCHANGED <<resp, config, files, writeQueue, logs, audits, authVars, boot, limits>>

\* a Date: the instant it holds, and the offset of local time at that instant
Date(utc, offset) == [utc |-> utc, offset |-> offset]
Epoch == Date(0, 0)

\* formatLogTimestamp: the fields of the date in local time, without the offset
formatLogTimestamp(date) == date.utc + date.offset

\* recordUserAction up to its first await, timestamp being what new Date()
\* returned: logUserActivity has enqueued the activity line
recordUserActionAt(username, action, timestamp) ==
    LET event == Len(audits) + 1
    IN /\ audits' = Append(audits,
            [username |-> username, action |-> action, pc |-> "log",
             pend |-> {"admins", "deact"}, snap |-> EmptyStore, adminUsernames |-> <<>>,
             seen |-> {ActiveAdmins(files)}, quiet |-> TRUE, threw |-> FALSE,
             response |-> 0, pushed |-> {}, timestamp |-> timestamp])
       /\ writeQueue' = appendLine(writeQueue, "activity", [event |-> event, admin |-> ""])

\* recordUserAction called within the second the server started in
recordUserAction(username, action) == recordUserActionAt(username, action, Epoch)

\* POST /api/activity/action
postAction(username, action) ==
    /\ Listening
    /\ Budget
    /\ Len(audits) < limits.audits
    /\ IF action = "" THEN Reject("MISSING_ACTION")
       ELSE /\ recordUserAction(username, action)
            /\ UNCHANGED <<resp, config, files, logs, sockets, authVars, boot, limits>>

\* one readLines of listAdminUsernames completes; after the last,
\* recordActivityNotification returns at once when no admin is listed, and
\* else maps the list to appendLine calls
AdminsRead(i, file) ==
    /\ audits[i].pc \in {"log", "list"}
    /\ Appended(writeQueue, "activity", i)
    /\ file \in audits[i].pend
    /\ LET a == audits[i]
           snap == [a.snap EXCEPT ![file] = files[file]]
           listed == ActiveAdmins(snap)
       IN IF a.pend # {file}
          THEN /\ audits' = [audits EXCEPT ![i] =
                      [a EXCEPT !.pc = "list", !.pend = @ \ {file}, !.snap = snap]]
               /\ UNCHANGED writeQueue
          ELSE IF listed = {}
          THEN /\ audits' = [audits EXCEPT ![i] =
                      [a EXCEPT !.pc = "done", !.pend = {}, !.snap = EmptyStore,
                                !.response = 201]]
               /\ UNCHANGED writeQueue
          ELSE \E adminUsernames \in Orders(listed) :
               /\ audits' = [audits EXCEPT ![i] =
                      [a EXCEPT !.pc = "notify", !.pend = {}, !.snap = EmptyStore,
                                !.adminUsernames = adminUsernames]]
               /\ writeQueue' = appendLines(writeQueue, "notif",
                      [k \in DOMAIN adminUsernames |-> [event |-> i, admin |-> adminUsernames[k]]])
    /\ UNCHANGED <<resp, config, files, logs, sockets, authVars, boot, limits>>

Range(seq) == {seq[k] : k \in DOMAIN seq}

\* the sockets of wsByAdmin whose key has a payload in payloadByAdmin
Targets(registry, adminUsernames) == {s \in registry : s.username \in Range(adminUsernames)}

Envelope(socket, admin) == [socket |-> socket, admin |-> admin]

\* the sockets sent to when a send throws: the throwing socket is not among
\* them, and every other account's sockets are all among them or none is
StoppedAt(got, targets) ==
    \E t \in targets \ got :
        \A s \in targets :
            s.username # t.username =>
                (s \in got <=> \A o \in targets : o.username = s.username => o \in got)

\* the push loop of recordActivityNotification, and the response of the
\* route.  threw: some socket.send of the loop threw, which ends the loop:
\* the sockets of the accounts iterated before have been sent to, those of
\* the accounts after have not.  pushed: the envelopes sent, each with the
\* socket it went to and the admin its notification is addressed to.
PushToSockets(i, threw) ==
    /\ audits[i].pc = "notify"
    /\ Appended(writeQueue, "notif", i)
    /\ LET targets == Targets(sockets, audits[i].adminUsernames)
       IN \E got \in SUBSET targets :
            /\ IF threw THEN StoppedAt(got, targets) ELSE got = targets
            /\ audits' = [audits EXCEPT ![i] =
                   [@ EXCEPT !.pc = "done", !.threw = threw,
                             !.response = IF threw THEN 500 ELSE 201,
                             !.pushed = {Envelope(s, s.username) : s \in got}]]
    /\ UNCHANGED <<resp, config, files, writeQueue, logs, sockets, authVars, boot, limits>>

InitAudit ==
    /\ \E d \in SUBSET {ConfiguredPrimary} :
         files = [EmptyStore EXCEPT
                    !.admins = MapSet(EmptyMap, ConfiguredPrimary,
                                      bcryptHash(primaryAdminPassword, 1)),
                    !.primary = {ConfiguredPrimary},
                    !.users = MapSet(EmptyMap, "bob", bcryptHash("StrongPass1!", 1)),
                    !.deact = d]
    /\ writeQueue = <<[Task("init", "", "", "", "undefined") EXCEPT !.pc = "ok", !.code = "OK"]>>
    /\ boot = [FirstStart(EmptyStore) EXCEPT !.runs = 1, !.first = files]
    /\ limits = [calls |-> MaxAuditCalls, boots |-> 1, audits |-> MaxAudits]
    /\ logs = EmptyLogs /\ audits = <<>> /\ sockets = {}
    /\ reader = IdleReader /\ tokens = {}
    /\ resp = NoResponse /\ config = [admin2faEnforce |-> FALSE]

NextAudit ==
    \/ \E i \in 1..Len(writeQueue) : TaskStart(i)
    \/ \E i \in 1..Len(writeQueue) : TaskWrite(i)
    \/ \E u \in AuditUsernames : createUser(u, "StrongPass1!", Roles.ADMIN)
    \/ \E u \in AuditUsernames, a \in {"true", "false"} : updateUser(u, "", a)
    \/ \E u \in AuditUsernames : deleteUser(u)
    \/ \E u \in AuditUsernames : promoteUserToAdmin(u)
    \/ \E u \in AuditSockets : registerSocket(u, 1)
    \/ \E u \in AuditSockets : unregisterSocket(u, 1)
    \/ \E u \in AuditUsernames, a \in AuditActions : postAction(u, a)
    \/ \E i \in 1..Len(audits), f \in {"admins", "deact"} : AdminsRead(i, f)
    \/ \E i \in 1..Len(audits), threw \in BOOLEAN : PushToSockets(i, threw)

SpecAudit == InitAudit /\ [][NextAudit]_vars

\* the positions of an event's lines in a log, and the recipients they name
LinesOf(log, event) == {k \in 1..Len(log) : log[k].event = event}
RecipientsOf(log, event) == {log[k].admin : k \in LinesOf(log, event)}

FanOut(i, S) ==
    /\ Cardinality(LinesOf(logs.activity, i)) = 1
    /\ Cardinality(LinesOf(logs.notif, i)) = Cardinality(S)
    /\ RecipientsOf(logs.notif, i) = S

\* C8 (as claimed): a recordUserAction call made while exactly K admin
\* accounts are not deactivated appends 1 line to the activity log and K
\* lines to the notification log, one for each of those K accounts and none
\* for a deactivated admin or a regular user.
C8_AuditFanOutCount ==
    \A i \in 1..Len(audits) :
        (audits[i].pc = "done" /\ Cardinality(audits[i].seen) = 1) =>
            \A S \in audits[i].seen : FanOut(i, S)

\* C8, when no write changes the admins file or the deactivated file during
\* the call: the count holds.
C8_QuietFanOutCount ==
    \A i \in 1..Len(audits) :
        (audits[i].pc = "done" /\ audits[i].quiet) =>
            \A S \in audits[i].seen : FanOut(i, S)

\* C9 (as claimed): if the activity line of an event precedes the activity
\* line of another, every notification line of the first precedes every
\* notification line of the second.
C9_CrossLogOrderAgreement ==
    \A e1, e2 \in 1..Len(audits) :
        \A a1 \in LinesOf(logs.activity, e1), a2 \in LinesOf(logs.activity, e2) :
            a1 < a2 =>
                \A n1 \in LinesOf(logs.notif, e1), n2 \in LinesOf(logs.notif, e2) : n1 < n2

\* C10 (as claimed): when a send of the live push throws, recordUserAction
\* still completes and the route answers with its success response.
C10_FireAndForgetPush ==
    \A i \in 1..Len(audits) :
        (audits[i].pc = "done" /\ audits[i].threw) => audits[i].response = 201

----------------------------------------------------------------------------
(* SpecLogs: the logs read while lines are appended to them.               *)

MaxLogCalls == 2       \* calls made: credential calls and audited actions together

\* fs.appendFile writes the line in place: a write that lands short, or a
\* line that crosses a page of the file, leaves a part of the line readable
\* before the rest
AppendPartial(i) ==
    /\ writeQueue[i].pc = "running"
    /\ writeQueue[i].op = "append"
    /\ logs.partial = ""
    /\ logs' = [logs EXCEPT !.partial = writeQueue[i].file]
    /\ UNCHANGED <<files, writeQueue, audits, sockets, authVars, resp, config, boot, limits>>

\* readLines on a log, as getNotificationsForAdmin and the audit log routes
\* make it: one fs.readFile outside the queue
readLog(file) ==
    /\ Listening
    /\ resp' = [NoResponse EXCEPT !.route = file, !.status = 200, !.ran = TRUE,
                                  !.lines = Len(logs[file]), !.torn = logs.partial = file]
    /\ UNCHANGED <<files, writeQueue, logs, audits, sockets, authVars, config, boot, limits>>

InitLogs ==
    /\ files = [EmptyStore EXCEPT
                    !.admins = MapSet(EmptyMap, ConfiguredPrimary,
                                      bcryptHash(primaryAdminPassword, 1)),
                    !.primary = {ConfiguredPrimary},
                    !.users = MapSet(EmptyMap, "bob", bcryptHash("StrongPass1!", 1))]
    /\ writeQueue = <<[Task("init", "", "", "", "undefined") EXCEPT !.pc = "ok", !.code = "OK"]>>
    /\ boot = [FirstStart(EmptyStore) EXCEPT !.runs = 1, !.first = files]
    /\ limits = [calls |-> MaxLogCalls, boots |-> 1, audits |-> MaxLogCalls]
    /\ logs = EmptyLogs /\ audits = <<>> /\ sockets = {}
    /\ reader = IdleReader /\ tokens = {}
    /\ resp = NoResponse /\ config = [admin2faEnforce |-> FALSE]

NextLogs ==
    \/ NextAudit
    \/ \E i \in 1..Len(writeQueue) : AppendPartial(i)
    \/ \E f \in {"activity", "notif"} : readLog(f)

SpecLogs == InitLogs /\ [][NextLogs]_vars

\* C12 (as claimed): a read of a store file that runs while a write to that
\* file is queued or under way returns the whole content from before the write
\* or the whole content from after it, never a part of what is written; for
\* the rewrites of the credential files and for the appends to the logs alike.
C12_NoTornReads == resp.route \in {"activity", "notif"} => ~resp.torn

----------------------------------------------------------------------------
(* SpecTwoFactor: the calls of the two-factor service.                     *)

TwoFactorUsernames == {"root", "ROOT", "alice", ""}
MaxTwoFactorCalls == 3

TwoFactorTask(op, username, otp, secret) ==
    [Task(op, username, "", "", "undefined") EXCEPT !.otp = otp, !.secret = secret]

beginTwoFactorSetup(rawUsername) ==
    /\ Listening
    /\ Budget
    /\ IF normalizeUsername(rawUsername) = "" THEN Reject("MISSING_USERNAME")
       ELSE \E secret \in Secrets :
            /\ writeQueue' = enqueueWrite(writeQueue,
                   TwoFactorTask("2fa-setup", normalizeUsername(rawUsername), "", secret))
            /\ UNCHANGED <<files, authVars, auditVars, resp, config, boot, limits>>

enableTwoFactor(rawUsername, rawOtp) ==
    /\ Listening
    /\ Budget
    /\ IF ~validOtp(rawOtp) THEN Reject("INVALID_OTP")
       ELSE /\ writeQueue' = enqueueWrite(writeQueue,
                   TwoFactorTask("2fa-verify", normalizeUsername(rawUsername), otpTrim(rawOtp), 0))
            /\ UNCHANGED <<files, authVars, auditVars, resp, config, boot, limits>>

disableTwoFactor(rawUsername, rawOtp) ==
    /\ Listening
    /\ Budget
    /\ IF ~validOtp(rawOtp) THEN Reject("INVALID_OTP")
       ELSE /\ writeQueue' = enqueueWrite(writeQueue,
                   TwoFactorTask("2fa-disable", normalizeUsername(rawUsername), otpTrim(rawOtp), 0))
            /\ UNCHANGED <<files, authVars, auditVars, resp, config, boot, limits>>

cancelTwoFactorSetup(rawUsername) ==
    /\ Listening
    /\ Budget
    /\ IF normalizeUsername(rawUsername) = "" THEN Reject("MISSING_USERNAME")
       ELSE /\ writeQueue' = enqueueWrite(writeQueue,
                   TwoFactorTask("2fa-cancel", normalizeUsername(rawUsername), "", 0))
            /\ UNCHANGED <<files, authVars, auditVars, resp, config, boot, limits>>

resetTwoFactor(rawUsername) ==
    /\ Listening
    /\ Budget
    /\ IF normalizeUsername(rawUsername) = "" THEN Reject("MISSING_USERNAME")
       ELSE /\ writeQueue' = enqueueWrite(writeQueue,
                   TwoFactorTask("2fa-reset", normalizeUsername(rawUsername), "", 0))
            /\ UNCHANGED <<files, authVars, auditVars, resp, config, boot, limits>>

InitTwoFactor ==
    /\ files = [EmptyStore EXCEPT
                    !.admins = MapSet(MapSet(EmptyMap, ConfiguredPrimary,
                                             bcryptHash(primaryAdminPassword, 1)),
                                      "alice", bcryptHash("StrongPass1!", 1)),
                    !.primary = {ConfiguredPrimary}]
    /\ writeQueue = <<[Task("init", "", "", "", "undefined") EXCEPT !.pc = "ok", !.code = "OK"]>>
    /\ boot = [FirstStart(EmptyStore) EXCEPT !.runs = 1, !.first = files]
    /\ limits = [calls |-> MaxTwoFactorCalls, boots |-> 1, audits |-> 0]
    /\ logs = EmptyLogs /\ audits = <<>> /\ sockets = {}
    /\ reader = IdleReader /\ tokens = {}
    /\ resp = NoResponse /\ config = [admin2faEnforce |-> FALSE]

NextTwoFactor ==
    \/ \E i \in 1..Len(writeQueue) : TaskStart(i)
    \/ \E i \in 1..Len(writeQueue) : TaskWrite(i)
    \/ \E u \in TwoFactorUsernames : beginTwoFactorSetup(u)
    \/ \E u \in TwoFactorUsernames, o \in RawOtps : enableTwoFactor(u, o)
    \/ \E u \in TwoFactorUsernames, o \in RawOtps : disableTwoFactor(u, o)
    \/ \E u \in TwoFactorUsernames : cancelTwoFactorSetup(u)
    \/ \E u \in TwoFactorUsernames : resetTwoFactor(u)

SpecTwoFactor == InitTwoFactor /\ [][NextTwoFactor]_vars

\* the tasks that settle in a step
Settling(i) == ~Settled(writeQueue[i]) /\ Settled(writeQueue'[i])
StatusOf(f, u) == TwoFactorStatus(f.twofa, u)

\* C13: when a beginTwoFactorSetup for a user completes the user's status is
\* pending; an enableTwoFactor with the current code of the stored secret
\* then leaves the status enabled with enabledAt set; an enableTwoFactor with
\* another 6-digit code fails with TOTP_INVALID and leaves the record as it
\* was, pending.
C13_TotpRoundTrip ==
    [][\A i \in 1..Len(writeQueue) :
         LET t == writeQueue[i]
             secret == decryptSecret(files.twofa[t.username].secret)
         IN Settling(i) =>
             /\ t.op = "2fa-setup" => StatusOf(files', t.username).status = "pending"
             /\ (t.op = "2fa-verify" /\ StatusOf(files, t.username).status = "pending") =>
                   IF t.otp = CodeFor(secret)
                   THEN /\ writeQueue'[i].pc = "ok"
                        /\ StatusOf(files', t.username) = [status |-> "enabled", enabledAt |-> "now"]
                   ELSE /\ writeQueue'[i].code = "TOTP_INVALID"
                        /\ files' = files
                        /\ StatusOf(files', t.username).status = "pending"]_vars

\* a setup completed and then confirmed with the right code, and a pending
\* setup refused for a wrong code
C13_Witness ==
    \E i, j, k \in 1..Len(writeQueue) :
        /\ i < j /\ j < k
        /\ writeQueue[i].op = "2fa-setup" /\ writeQueue[i].pc = "ok"
        /\ writeQueue[j].op = "2fa-verify" /\ writeQueue[j].code = "TOTP_INVALID"
        /\ writeQueue[k].op = "2fa-verify" /\ writeQueue[k].pc = "ok"
        /\ writeQueue[i].username = writeQueue[j].username
        /\ writeQueue[i].username = writeQueue[k].username
        /\ StatusOf(files, writeQueue[i].username).status = "enabled"

\* C14 (as claimed): a user's status stops being enabled only by a
\* disableTwoFactor with a correct code or by a resetTwoFactor for that user;
\* beginTwoFactorSetup, cancelTwoFactorSetup and a failed disable leave an
\* enabled record as it is.
C14_EnabledTakenDownWithProof ==
    [][\A u \in {"root", "alice"} :
         (StatusOf(files, u).status = "enabled" /\ StatusOf(files', u).status # "enabled") =>
             \E i \in 1..Len(writeQueue) :
                 /\ Settling(i)
                 /\ writeQueue[i].username = u
                 /\ \/ writeQueue[i].op = "2fa-reset"
                    \/ /\ writeQueue[i].op = "2fa-disable"
                       /\ writeQueue[i].otp = CodeFor(decryptSecret(files.twofa[u].secret))]_vars

----------------------------------------------------------------------------
(* SpecLogin: POST /api/auth/login on accounts that are active or          *)
(* deactivated, with and without two-factor authentication.                *)

LoginUsernames == {"", "alice", " Alice ", "bob", "ghost"}
LoginPasswords == {"", "StrongPass1!", "WrongPass1!"}
MaxLoginCalls == 1     \* logins answered
ADMIN_ROLES == {Roles.PRIMARY_ADMIN, Roles.ADMIN}

\* if (!otp): no otp field, or an empty string
NoOtp(rawOtp) == rawOtp \in {"undefined", ""}

Answer(status, code) == [status |-> status, code |-> code, username |-> "", role |-> "", mfa |-> FALSE]

\* authenticateUser: null for a missing or deactivated account and for a
\* password that does not match
authenticateUserRevealing(f, rawUsername, password) ==
    LET record == getUserByUsername(normalizeUsername(rawUsername), f)
    IN IF ~record.found THEN [found |-> FALSE, code |-> "USER_NOT_FOUND"]
       ELSE IF ~record.isActive THEN [found |-> FALSE, code |-> "ACCOUNT_DEACTIVATED"]
       ELSE IF ~bcryptCompare(password, record.passwordHash)
       THEN [found |-> FALSE, code |-> "INVALID_CREDENTIALS"]
       ELSE [found |-> TRUE, code |-> "", username |-> record.username, role |-> record.role]

authenticateUser(f, rawUsername, password) ==
    LET record == getUserByUsername(normalizeUsername(rawUsername), f)
    IN IF normalizeUsername(rawUsername) = "" \/ ~record.found \/ ~record.isActive
       THEN [found |-> FALSE, code |-> "INVALID_CREDENTIALS"]
       ELSE IF ~bcryptCompare(password, record.passwordHash)
       THEN [found |-> FALSE, code |-> "INVALID_CREDENTIALS"]
       ELSE [found |-> TRUE, code |-> "", username |-> record.username, role |-> record.role]

\* verifyTwoFactorForLogin: the error it throws, or OK
verifyTwoFactorUnchecked(records, username, rawOtp) ==
    IF ~validOtp(rawOtp) THEN [status |-> 400, code |-> "INVALID_OTP"]
    ELSE [status |-> 200, code |-> "OK"]

verifyTwoFactorForLogin(records, username, rawOtp) ==
    IF ~validOtp(rawOtp) THEN [status |-> 400, code |-> "INVALID_OTP"]
    ELSE IF ~hasTwoFactorEnabled(records, username)
    THEN [status |-> 400, code |-> "TOTP_NOT_ENABLED"]
    ELSE IF decryptSecret(records[username].secret) = 0
    THEN [status |-> 500, code |-> "TOTP_SECRET_INVALID"]
    ELSE IF ~verify(decryptSecret(records[username].secret), otpTrim(rawOtp))
    THEN [status |-> 401, code |-> "TOTP_INVALID"]
    ELSE [status |-> 200, code |-> "OK"]

\* the decisions of the login route, in the order the route takes them
LoginAnswer(f, rawUsername, password, rawOtp) ==
    LET user == authenticateUser(f, rawUsername, password)
        mfaEnabled == user.role \in ADMIN_ROLES /\ hasTwoFactorEnabled(f.twofa, user.username)
        checked == verifyTwoFactorForLogin(f.twofa, user.username, rawOtp)
    IN IF rawUsername = "" \/ password = "" THEN Answer(400, "MISSING_CREDENTIALS")
       ELSE IF ~user.found THEN Answer(401, user.code)
       ELSE IF mfaEnabled /\ NoOtp(rawOtp) THEN Answer(401, "TOTP_REQUIRED")
       ELSE IF mfaEnabled /\ checked.code # "OK" THEN Answer(checked.status, checked.code)
       ELSE [status |-> 200, code |-> "", username |-> user.username, role |-> user.role,
             mfa |-> mfaEnabled]

\* POST /login: on success the token is signed, the cookie set and the login
\* audited; the status is the one sent when recordUserAction returns
login(rawUsername, password, rawOtp) ==
    /\ Listening
    /\ Budget
    /\ LET a == LoginAnswer(files, rawUsername, password, rawOtp)
           token == [sub |-> a.username, mfa |-> a.mfa, issuedRole |-> a.role]
           request == [username |-> rawUsername, password |-> password, otp |-> rawOtp]
       IN IF a.status = 200
          THEN /\ tokens' = tokens \cup {token}
               /\ recordUserAction(a.username, "login")
               /\ resp' = [NoResponse EXCEPT !.route = "POST /login", !.status = 200,
                                             !.cookie = token, !.ran = TRUE, !.req = request]
          ELSE /\ resp' = [NoResponse EXCEPT !.route = "POST /login", !.status = a.status,
                                             !.code = a.code, !.ran = TRUE, !.req = request]
               /\ UNCHANGED <<tokens, audits, writeQueue>>
    /\ UNCHANGED <<files, logs, sockets, reader, config, boot, limits>>

InitLogin ==
    /\ \E d \in SUBSET {"alice", "bob"}, s \in Secrets, e \in {"none", "pending", "enabled"} :
         files = [EmptyStore EXCEPT
                    !.admins = MapSet(MapSet(EmptyMap, ConfiguredPrimary,
                                             bcryptHash(primaryAdminPassword, 1)),
                                      "alice", bcryptHash("StrongPass1!", 1)),
                    !.primary = {ConfiguredPrimary},
                    !.users = MapSet(EmptyMap, "bob", bcryptHash("StrongPass1!", 1)),
                    !.deact = d,
                    !.twofa = IF e = "none" THEN EmptyRecords
                              ELSE RecordSet(EmptyRecords, "alice",
                                     [secret |-> encryptSecret(s), enabled |-> e = "enabled",
                                      enabledAt |-> IF e = "enabled" THEN "now" ELSE "null"])]
    /\ writeQueue = <<[Task("init", "", "", "", "undefined") EXCEPT !.pc = "ok", !.code = "OK"]>>
    /\ boot = [FirstStart(EmptyStore) EXCEPT !.runs = 1, !.first = files]
    /\ limits = [calls |-> MaxLoginCalls, boots |-> 1, audits |-> MaxLoginCalls]
    /\ logs = EmptyLogs /\ audits = <<>> /\ sockets = {}
    /\ reader = IdleReader /\ tokens = {}
    /\ resp = NoResponse /\ config = [admin2faEnforce |-> FALSE]

NextLogin ==
    \/ \E i \in 1..Len(writeQueue) : TaskStart(i)
    \/ \E i \in 1..Len(writeQueue) : TaskWrite(i)
    \/ \E u \in LoginUsernames, p \in LoginPasswords, o \in RawOtps : login(u, p, o)
    \/ \E i \in 1..Len(audits), f \in {"admins", "deact"} : AdminsRead(i, f)
    \/ \E i \in 1..Len(audits) : PushToSockets(i, FALSE)

SpecLogin == InitLogin /\ [][NextLogin]_vars

\* the login answered in a step, and the account it names as the files have it
LoginStep == resp' # resp /\ resp'.route = "POST /login"
Named == normalizeUsername(resp'.req.username)
NoSession == resp'.cookie = NoToken /\ tokens' = tokens
Refused(status, code) == resp'.status = status /\ resp'.code = code /\ NoSession

\* the login is for an active admin account with two-factor enabled, with
\* the right password
SecondFactorDue ==
    /\ LoginStep
    /\ Status(files, Named).role \in ADMIN_ROLES
    /\ Status(files, Named).active
    /\ hasTwoFactorEnabled(files.twofa, Named)
    /\ bcryptCompare(resp'.req.password, HashOf(files, Named))

CurrentCode == CodeFor(decryptSecret(files.twofa[Named].secret))
MfaSession ==
    /\ resp'.status = 200
    /\ resp'.cookie = [sub |-> Named, mfa |-> TRUE, issuedRole |-> Status(files, Named).role]
    /\ resp'.cookie \in tokens'

C18_LoginHidesAccountExistence ==
    [][(/\ LoginStep
        /\ resp'.req.username # "" /\ resp'.req.password # ""
        /\ \/ Status(files, Named).role = "null"
           \/ ~Status(files, Named).active
           \/ ~bcryptCompare(resp'.req.password, HashOf(files, Named))) =>
            /\ Refused(401, "INVALID_CREDENTIALS")
            /\ audits' = audits /\ writeQueue' = writeQueue /\ logs' = logs]_vars

\* a deactivated account was refused with its right password
C18_Witness ==
    /\ resp.route = "POST /login" /\ resp.code = "INVALID_CREDENTIALS"
    /\ normalizeUsername(resp.req.username) \in files.deact
    /\ Has(files.users, normalizeUsername(resp.req.username))
    /\ bcryptCompare(resp.req.password, HashOf(files, normalizeUsername(resp.req.username)))

----------------------------------------------------------------------------
(* SpecAdmin: requests to the admin router and connections to the          *)
(* notification channel, made with the session tokens of a primary admin,  *)
(* an admin and a user, with and without the enforcement flag.  The caller *)
(* makes one request at a time.                                            *)

MaxAdminCalls == 2     \* calls made: one service call and its audit

\* the routes registered before the enforcement gate, and those after it
TwoFactorRoutes ==
    {"GET /security/2fa/status", "POST /security/2fa/setup",
     "POST /security/2fa/cancel", "POST /security/2fa/reset"}
GatedRoutes ==
    {"GET /users", "GET /notifications", "POST /users", "PATCH /users/:username",
     "DELETE /users/:username", "POST /users/:username/promote"}
\* the analytics, audit-log and system routes, registered after the gate too,
\* and those of them whose handler calls recordUserAction before it answers
ReportRoutes ==
    {"GET /analytics/timeline", "GET /analytics/per-user", "GET /audit/logs",
     "GET /audit/logs/export.csv", "GET /system/storage", "POST /system/backups/run"}
AuditedReports ==
    {"GET /audit/logs/export.csv", "GET /system/storage", "POST /system/backups/run"}
\* the routes that carry requireRoles(Roles.PRIMARY_ADMIN) of their own
PrimaryAdminRoutes ==
    {"POST /security/2fa/reset", "POST /users", "PATCH /users/:username",
     "DELETE /users/:username", "POST /users/:username/promote"}
AdminTargets == {"", "alice", "bob"}

Pass == [status |-> 0, code |-> ""]
Verdict(status, code) == [status |-> status, code |-> code]

requireRolesAny(user, roles) ==
    IF user = NoUser THEN Verdict(401, "AUTH_REQUIRED") ELSE Pass

requireRoles(user, roles) ==
    IF user = NoUser THEN Verdict(401, "AUTH_REQUIRED")
    ELSE IF user.role \notin roles THEN Verdict(403, "FORBIDDEN")
    ELSE Pass

\* the middleware registered when config.admin2faEnforce is set
enforcementGateTrusting(records, user) ==
    IF ~hasTwoFactorEnabled(records, user.username)
    THEN Verdict(403, "ADMIN_2FA_SETUP_REQUIRED")
    ELSE Pass

\* a gate that trusts the MFA flag of the token without reading the record
enforcementGateTokenOnly(records, user) ==
    IF ~user.mfaVerified THEN Verdict(401, "MFA_REQUIRED") ELSE Pass

enforcementGate(records, user) ==
    IF ~hasTwoFactorEnabled(records, user.username)
    THEN Verdict(403, "ADMIN_2FA_SETUP_REQUIRED")
    ELSE IF ~user.mfaVerified THEN Verdict(401, "MFA_REQUIRED")
    ELSE Pass

NoTask == Task("none", "", "", "", "undefined")
Call(task) == [status |-> 0, code |-> "", task |-> task]
Thrown(status, code) == [status |-> status, code |-> code, task |-> NoTask]

\* a route handler up to its first await: the error it throws before, or the
\* write its service call enqueues (none for a route that only reads)
Handler(route, user, target, secret, f) ==
    LET username == normalizeUsername(target)
        existing == getUserByUsername(username, f)
    IN CASE route = "POST /security/2fa/setup" ->
              Call(TwoFactorTask("2fa-setup", user.username, "", secret))
         [] route = "POST /security/2fa/cancel" ->
              Call(TwoFactorTask("2fa-cancel", user.username, "", 0))
         [] route = "POST /security/2fa/reset" ->
              IF target = "" THEN Thrown(400, "MISSING_TARGET_USERNAME")
              ELSE Call(TwoFactorTask("2fa-reset", username, "", 0))
         [] route = "POST /users" ->
              IF ~validateUsername(target) THEN Thrown(400, "INVALID_USERNAME")
              ELSE Call(Task("create", username, "StrongPass1!", Roles.USER, "undefined"))
         [] route = "PATCH /users/:username" ->
              IF ~existing.found THEN Thrown(404, "USER_NOT_FOUND")
              ELSE IF existing.role = Roles.PRIMARY_ADMIN THEN Thrown(403, "PRIMARY_PROTECTED")
              ELSE IF ~validateUsername(target) THEN Thrown(400, "INVALID_USERNAME")
              ELSE Call(Task("update", username, "", "", "false"))
         [] route = "DELETE /users/:username" ->
              IF ~validateUsername(target) THEN Thrown(400, "INVALID_USERNAME")
              ELSE Call(Task("delete", username, "", "", "undefined"))
         [] route = "POST /users/:username/promote" ->
              IF ~validateUsername(target) THEN Thrown(400, "INVALID_USERNAME")
              ELSE Call(Task("promote", username, "", "", "undefined"))
         [] OTHER -> Call(NoTask)

\* the status the AppError of a service carries
StatusOfCode(code) ==
    IF code = "USER_NOT_FOUND" THEN 404
    ELSE IF code \in {"ALREADY_ADMIN", "USER_EXISTS"} THEN 409
    ELSE IF code = "TOTP_INVALID" THEN 401
    ELSE IF code = "TOTP_SECRET_INVALID" THEN 500 ELSE 400

\* the status of a route's answer when nothing has thrown
SuccessStatus(route) ==
    IF route \in {"POST /security/2fa/setup", "POST /users", "POST /system/backups/run"} THEN 201
    ELSE IF route = "DELETE /users/:username" THEN 204 ELSE 200

Answered(request, status, code) ==
    [request EXCEPT !.pc = "", !.status = status, !.code = code, !.task = 0, !.audit = 0]

\* the rest of a route's stack once the router-level middleware has passed:
\* the route's own requireRoles, then its handler up to its first await
RouteStack(request, target) ==
    LET own == IF request.route \in PrimaryAdminRoutes
               THEN requireRoles(request.user, {Roles.PRIMARY_ADMIN}) ELSE Pass
    IN IF own # Pass
       THEN /\ resp' = Answered(request, own.status, own.code)
            /\ UNCHANGED <<writeQueue, audits>>
       ELSE \E secret \in Secrets :
            LET h == Handler(request.route, request.user, target, secret, files)
                ran == [request EXCEPT !.ran = TRUE]
            IN IF h.code # ""
               THEN /\ resp' = Answered(ran, h.status, h.code)
                    /\ UNCHANGED <<writeQueue, audits>>
               ELSE IF h.task = NoTask /\ request.route \in AuditedReports
               THEN /\ recordUserAction(request.user.username, request.route)
                    /\ resp' = [ran EXCEPT !.pc = "audit", !.audit = Len(audits) + 1]
               ELSE IF h.task = NoTask
               THEN /\ resp' = Answered(ran, SuccessStatus(request.route), "")
                    /\ UNCHANGED <<writeQueue, audits>>
               ELSE /\ Budget
                    /\ writeQueue' = enqueueWrite(writeQueue, [h.task EXCEPT !.by = request.user])
                    /\ resp' = [ran EXCEPT !.pc = "call", !.task = Len(writeQueue) + 1]
                    /\ UNCHANGED audits

\* what authenticateToken has returned to the caller that awaited it
ResolvedUser ==
    IF reader.code = "OK"
    THEN [username |-> reader.sub, role |-> reader.role, mfaVerified |-> reader.token.mfa]
    ELSE NoUser

\* a request to the admin router, from the return of authenticateFromRequest
\* to the first await after it
adminRequest(route, target) ==
    /\ reader.pc = "done"
    /\ resp.pc = ""
    /\ LET request == [NoResponse EXCEPT !.route = route, !.user = ResolvedUser,
                                         !.cookie = reader.token, !.req.username = target]
           admin == requireRoles(ResolvedUser, ADMIN_ROLES)
       IN IF reader.code # "OK"
          THEN /\ resp' = Answered(request, 401, reader.code)
               /\ UNCHANGED <<writeQueue, audits>>
          ELSE IF admin # Pass
          THEN /\ resp' = Answered(request, admin.status, admin.code)
               /\ UNCHANGED <<writeQueue, audits>>
          ELSE IF route \in GatedRoutes \cup ReportRoutes /\ config.admin2faEnforce
          THEN /\ resp' = [request EXCEPT !.pc = "gate"]
               /\ UNCHANGED <<writeQueue, audits>>
          ELSE RouteStack(request, target)
    /\ reader' = IdleReader
    /\ UNCHANGED <<files, logs, sockets, tokens, config, boot, limits>>

\* the enforcement middleware once hasTwoFactorEnabled has read the records
adminGate ==
    /\ resp.pc = "gate"
    /\ LET gate == enforcementGate(files.twofa, resp.user)
       IN IF gate # Pass
          THEN /\ resp' = Answered(resp, gate.status, gate.code)
               /\ UNCHANGED <<writeQueue, audits>>
          ELSE RouteStack(resp, resp.req.username)
    /\ UNCHANGED <<files, logs, sockets, reader, tokens, config, boot, limits>>

\* a handler that calls recordUserAction in a finally block, whether the
\* service call has succeeded or thrown
adminCalledFinally ==
    /\ resp.pc = "call"
    /\ Settled(writeQueue[resp.task])
    /\ recordUserAction(resp.user.username, resp.route)
    /\ resp' = [resp EXCEPT !.pc = "audit", !.audit = Len(audits) + 1]
    /\ UNCHANGED <<files, logs, sockets, reader, tokens, config, boot, limits>>

\* the service call of the handler has settled: its error is answered, or
\* recordUserAction is called
adminCalled ==
    /\ resp.pc = "call"
    /\ Settled(writeQueue[resp.task])
    /\ IF writeQueue[resp.task].pc = "err"
       THEN /\ resp' = Answered(resp, StatusOfCode(writeQueue[resp.task].code),
                                    writeQueue[resp.task].code)
            /\ UNCHANGED <<audits, writeQueue>>
       ELSE /\ recordUserAction(resp.user.username, resp.route)
            /\ resp' = [resp EXCEPT !.pc = "audit", !.audit = Len(audits) + 1]
    /\ UNCHANGED <<files, logs, sockets, reader, tokens, config, boot, limits>>

\* recordUserAction has returned or thrown: the route answers
adminAnswered ==
    /\ resp.pc = "audit"
    /\ audits[resp.audit].pc = "done"
    /\ resp' = Answered(resp, IF audits[resp.audit].threw THEN 500
                              ELSE SuccessStatus(resp.route), "")
    /\ UNCHANGED <<files, writeQueue, logs, audits, sockets, reader, tokens, config, boot, limits>>

\* the connection handler of the notification channel, from the return of
\* authenticateToken: status 101 stands for a connection left open
connectionAnyRole ==
    /\ reader.pc = "done"
    /\ resp.pc = ""
    /\ LET request == [NoResponse EXCEPT !.route = "WS /ws/admin-notifications",
                                         !.user = ResolvedUser, !.cookie = reader.token]
       IN IF reader.code # "OK"
          THEN /\ resp' = Answered(request, 1008, "Unauthorized")
               /\ UNCHANGED sockets
          ELSE /\ sockets' = sockets \cup {Socket(ResolvedUser.username, 1)}
               /\ resp' = [Answered(request, 101, "") EXCEPT !.ran = TRUE]
    /\ reader' = IdleReader
    /\ UNCHANGED <<files, writeQueue, logs, audits, tokens, config, boot, limits>>

connection ==
    /\ reader.pc = "done"
    /\ resp.pc = ""
    /\ LET request == [NoResponse EXCEPT !.route = "WS /ws/admin-notifications",
                                         !.user = ResolvedUser, !.cookie = reader.token]
       IN IF reader.code # "OK"
          THEN /\ resp' = Answered(request, 1008, "Unauthorized")
               /\ UNCHANGED sockets
          ELSE IF ResolvedUser.role \notin {"primary_admin", "admin"}
          THEN /\ resp' = Answered(request, 1008, "Forbidden")
               /\ UNCHANGED sockets
          ELSE /\ sockets' = sockets \cup {Socket(ResolvedUser.username, 1)}
               /\ resp' = [Answered(request, 101, "") EXCEPT !.ran = TRUE]
    /\ reader' = IdleReader
    /\ UNCHANGED <<files, writeQueue, logs, audits, tokens, config, boot, limits>>

\* the answer has been sent and the caller is free to make its next request
requestOver ==
    /\ resp.pc = ""
    /\ resp # NoResponse
    /\ resp' = NoResponse
    /\ UNCHANGED <<files, writeQueue, logs, audits, sockets, reader, tokens, config, boot, limits>>

SessionToken(username, role, mfa) == [sub |-> username, mfa |-> mfa, issuedRole |-> role]
Enabled2fa(secret) == [secret |-> encryptSecret(secret), enabled |-> TRUE, enabledAt |-> "now"]

InitAdmin ==
    /\ \E e \in SUBSET {ConfiguredPrimary, "alice"} :
         files = [EmptyStore EXCEPT
                    !.admins = MapSet(MapSet(EmptyMap, ConfiguredPrimary,
                                             bcryptHash(primaryAdminPassword, 1)),
                                      "alice", bcryptHash("StrongPass1!", 1)),
                    !.primary = {ConfiguredPrimary},
                    !.users = MapSet(EmptyMap, "bob", bcryptHash("StrongPass1!", 1)),
                    !.twofa = [u \in e |-> Enabled2fa(1)]]
    /\ writeQueue = <<[Task("init", "", "", "", "undefined") EXCEPT !.pc = "ok", !.code = "OK"]>>
    /\ boot = [FirstStart(EmptyStore) EXCEPT !.runs = 1, !.first = files]
    /\ limits = [calls |-> MaxAdminCalls, boots |-> 1, audits |-> 1]
    /\ logs = EmptyLogs /\ audits = <<>> /\ sockets = {}
    /\ reader = IdleReader
    /\ tokens = {SessionToken(ConfiguredPrimary, Roles.PRIMARY_ADMIN, m) : m \in BOOLEAN}
                  \cup {SessionToken("alice", Roles.ADMIN, m) : m \in BOOLEAN}
                  \cup {SessionToken("bob", Roles.USER, FALSE)}
    /\ resp = NoResponse
    /\ config \in [admin2faEnforce : BOOLEAN]

NextAdmin ==
    \/ \E i \in 1..Len(writeQueue) : TaskStart(i)
    \/ \E i \in 1..Len(writeQueue) : TaskWrite(i)
    \/ \E t \in tokens \cup {NoToken, ForgedToken} :
          resp = NoResponse /\ reader.pc = "idle" /\ Budget /\ authenticateToken(t)
    \/ \E f \in StoreFiles : TokenRead(f)
    \/ requestOver
    \/ \E r \in TwoFactorRoutes \cup GatedRoutes, t \in AdminTargets : adminRequest(r, t)
    \/ adminGate
    \/ adminCalled
    \/ adminAnswered
    \/ connection
    \/ \E u \in {ConfiguredPrimary, "alice"} : unregisterSocket(u, 1)
    \/ \E i \in 1..Len(audits), f \in {"admins", "deact"} : AdminsRead(i, f)
    \/ \E i \in 1..Len(audits), threw \in BOOLEAN : PushToSockets(i, threw)

SpecAdmin == InitAdmin /\ [][NextAdmin]_vars

AdminRoutes == TwoFactorRoutes \cup GatedRoutes

\* the user-management routes and the operation of the credential service
\* each of them awaits
UserRoutes ==
    {"POST /users", "PATCH /users/:username", "DELETE /users/:username",
     "POST /users/:username/promote"}
OpOfRoute(route) ==
    CASE route = "POST /users" -> "create"
      [] route = "PATCH /users/:username" -> "update"
      [] route = "DELETE /users/:username" -> "delete"
      [] route = "POST /users/:username/promote" -> "promote"
      [] OTHER -> "none"

\* the files hold what the operation writes for the account
InEffect(op, username, f) ==
    CASE op = "create" -> username \in DOMAIN f.users \cup DOMAIN f.admins
      [] op = "update" -> username \in f.deact
      [] op = "delete" -> username \notin DOMAIN f.users \cup DOMAIN f.admins \cup f.deact
      [] op = "promote" -> username \in DOMAIN f.admins /\ username \notin DOMAIN f.users
      [] OTHER -> FALSE

\* recordUserAction is called for a user-management route in the step
Audited ==
    /\ Len(audits') = Len(audits) + 1
    /\ audits'[Len(audits')].action \in UserRoutes

\* C34: recordUserAction is called for a user-management route only by the
\* handler of that route, for the admin of the request, after the credential
\* operation on the target has succeeded with all its writes in the files,
\* and the activity line is enqueued behind it; a step that answers a
\* request with an error code calls no recordUserAction, and a request that
\* waits for its audit has a successful operation behind it.
C34_AuditFollowsStateChange ==
    [][/\ Audited =>
            LET t == writeQueue[resp.task]
                a == audits'[Len(audits')]
            IN /\ resp.pc = "call" /\ resp.route = a.action
               /\ a.username = resp.user.username
               /\ t.op = OpOfRoute(resp.route)
               /\ t.username = normalizeUsername(resp.req.username)
               /\ t.pc = "ok" /\ t.writes = <<>>
               /\ InEffect(t.op, t.username, files)
               /\ Len(writeQueue') = Len(writeQueue) + 1
               /\ writeQueue'[Len(writeQueue')].op = "append"
               /\ writeQueue'[Len(writeQueue')].line.event = Len(audits')
       /\ (resp' # resp /\ resp'.code # "") => audits' = audits
       /\ (resp'.route \in UserRoutes /\ resp'.pc = "audit") =>
               writeQueue'[resp'.task].pc = "ok"]_vars

\* the primary admin has deleted bob, and the activity line of the request
\* is in the log
C34_Witness ==
    /\ resp.route = "DELETE /users/:username" /\ resp.status = 204
    /\ "bob" \notin DOMAIN files.users
    /\ Len(audits) = 1 /\ audits[1].action = resp.route
    /\ \E k \in 1..Len(logs.activity) : logs.activity[k].event = 1

\* C39 (as claimed): once deleteUser has succeeded for an account and no
\* account of that name exists, the two-factor file holds no record of the
\* name, enabled or pending, so an account created under it later starts
\* without 2FA.
C39_TwoFactorRecordDeletedWithAccount ==
    \A i \in Calls :
        (/\ writeQueue[i].op = "delete" /\ writeQueue[i].pc = "ok"
         /\ writeQueue[i].username \notin DOMAIN files.users \cup DOMAIN files.admins)
        => /\ ~hasTwoFactorEnabled(files.twofa, writeQueue[i].username)
           /\ writeQueue[i].username \notin DOMAIN files.twofa

\* the step in which the middleware of a request to the admin router, or the
\* route's own stack, decides: the request is refused or its handler runs
Decided ==
    /\ resp' # resp
    /\ resp.pc \in {"", "gate"}
    /\ resp'.pc # "gate"
    /\ resp'.route \in AdminRoutes

\* the caller of the request decided is an authenticated admin-class account
\* and the enforcement flag is set
Enforced == config.admin2faEnforce /\ resp'.user.role \in ADMIN_ROLES

HasEnabled2fa(user) == hasTwoFactorEnabled(files.twofa, user.username)

RefusedBy(status, code) == resp'.status = status /\ resp'.code = code /\ ~resp'.ran

GateDecides(routes) ==
    (Decided /\ Enforced /\ resp'.route \in routes) =>
        /\ ~HasEnabled2fa(resp'.user) => RefusedBy(403, "ADMIN_2FA_SETUP_REQUIRED")
        /\ (HasEnabled2fa(resp'.user) /\ ~resp'.user.mfaVerified) => RefusedBy(401, "MFA_REQUIRED")

RolesOf(route) == IF route \in PrimaryAdminRoutes THEN {Roles.PRIMARY_ADMIN} ELSE ADMIN_ROLES

\* the calls that change the credential files, or a 2FA record that need not
\* be the caller's own
CredentialOps == {"create", "update", "delete", "promote", "2fa-reset"}

GuardContract(roles) ==
    /\ requireRoles(NoUser, roles) = Verdict(401, "AUTH_REQUIRED")
    /\ \A r \in {Roles.USER, Roles.ADMIN, Roles.PRIMARY_ADMIN} :
         LET user == [username |-> "alice", role |-> r, mfaVerified |-> FALSE]
         IN requireRoles(user, roles) = IF r \in roles THEN Pass ELSE Verdict(403, "FORBIDDEN")

Connected == resp' # resp /\ resp'.route = "WS /ws/admin-notifications"

\* C19: a connection is registered only if its cookie authenticates to an
\* account whose derived role is admin or primary_admin; every other
\* connection is closed with 1008 and is not registered, the registry grows
\* in no other step, and the push loop sends to registered accounts only.
C19_LiveChannelAuthorization ==
    [][/\ Connected =>
            IF reader.code = "OK" /\ reader.token \in tokens /\ reader.role \in ADMIN_ROLES
            THEN resp'.status = 101 /\ sockets' = sockets \cup {Socket(reader.sub, 1)}
            ELSE resp'.status = 1008 /\ sockets' = sockets
       /\ ~Connected => sockets' \subseteq sockets
       /\ \A i \in 1..Len(audits) :
            audits'[i].pushed # audits[i].pushed =>
                \A e \in audits'[i].pushed : e.socket \in sockets]_vars

\* C19 witness: the connection of a user has been closed with 1008 while the
\* primary admin, connected before, is the one account registered.
C19_Witness ==
    /\ resp.route = "WS /ws/admin-notifications"
    /\ resp.user.role = Roles.USER /\ resp.status = 1008 /\ resp.code = "Forbidden"
    /\ sockets = {Socket(ConfiguredPrimary, 1)}

\* GET /admin/notifications refuses the session of a resolved user
NotificationsRefuses(user) ==
    \/ requireRoles(user, ADMIN_ROLES) # Pass
    \/ config.admin2faEnforce /\ enforcementGate(files.twofa, user) # Pass

\* C20 (as claimed): a session that GET /admin/notifications would refuse
\* (unauthenticated, not admin-class or, with the enforcement flag set,
\* without enabled 2FA or with a token that is not MFA-verified) is refused
\* by the notification channel too.
C20_ChannelAuthorizedAsRoutes ==
    [][(Connected /\ NotificationsRefuses(resp'.user)) =>
            resp'.status = 1008 /\ sockets' = sockets]_vars

----------------------------------------------------------------------------
(* SpecPush: audited actions pushed to the connections of two admins, each *)
(* with up to MaxConnections connections opening and closing.              *)

MaxPushCalls == 1      \* audited actions
MaxConnections == 2    \* connections of one account
PushAdmins == {ConfiguredPrimary, "alice"}

InitPush ==
    /\ \E d \in SUBSET {"alice"} :
         files = [EmptyStore EXCEPT
                    !.admins = MapSet(MapSet(EmptyMap, ConfiguredPrimary,
                                             bcryptHash(primaryAdminPassword, 1)),
                                      "alice", bcryptHash("StrongPass1!", 1)),
                    !.primary = {ConfiguredPrimary},
                    !.users = MapSet(EmptyMap, "bob", bcryptHash("StrongPass1!", 1)),
                    !.deact = d]
    /\ writeQueue = <<[Task("init", "", "", "", "undefined") EXCEPT !.pc = "ok", !.code = "OK"]>>
    /\ boot = [FirstStart(EmptyStore) EXCEPT !.runs = 1, !.first = files]
    /\ limits = [calls |-> MaxPushCalls, boots |-> 1, audits |-> MaxPushCalls]
    /\ logs = EmptyLogs /\ audits = <<>> /\ sockets = {}
    /\ reader = IdleReader /\ tokens = {}
    /\ resp = NoResponse /\ config = [admin2faEnforce |-> FALSE]

NextPush ==
    \/ \E i \in 1..Len(writeQueue) : TaskStart(i)
    \/ \E i \in 1..Len(writeQueue) : TaskWrite(i)
    \/ \E u \in PushAdmins, c \in 1..MaxConnections : registerSocket(u, c)
    \/ \E u \in PushAdmins, c \in 1..MaxConnections : unregisterSocket(u, c)
    \/ \E a \in AuditActions : postAction("bob", a)
    \/ \E i \in 1..Len(audits), f \in {"admins", "deact"} : AdminsRead(i, f)
    \/ \E i \in 1..Len(audits), threw \in BOOLEAN : PushToSockets(i, threw)

SpecPush == InitPush /\ [][NextPush]_vars

\* the step in which the push loop of an audited action runs
PushStep(i) == audits[i].pc = "notify" /\ audits'[i].pc = "done"

\* one envelope to each registered connection of each recipient, carrying the
\* notification addressed to the account the connection is registered under
PushedToAll(i) ==
    audits'[i].pushed =
        {Envelope(s, s.username) : s \in Targets(sockets, audits[i].adminUsernames)}

\* C21 (as claimed): for every recorded action and every admin recipient A,
\* each of A's registered connections receives exactly one activity envelope,
\* the one addressed to A, and no connection registered under another
\* username receives it.
C21_MultiConnectionPush ==
    [][\A i \in 1..Len(audits) : PushStep(i) => PushedToAll(i)]_vars

\* C21 when no send throws: the same, for the push loops that run to their end.
C21_PushWhenNoSendThrows ==
    [][\A i \in 1..Len(audits) : (PushStep(i) /\ ~audits'[i].threw) => PushedToAll(i)]_vars

----------------------------------------------------------------------------
(* SpecHistory: the notification history read by admins while actions are  *)
(* audited and an admin account is deactivated and reactivated.            *)

MaxHistoryCalls == 2   \* calls made: credential calls and audited actions together
MaxLimit == 2          \* the limit of a history request
HistoryAdmins == {"ali", "alice"}

\* the admin segments a line can show while fs.appendFile has written only a
\* part of it; a line cut before its fourth segment is dropped by parseLogLine
CutSegments(admin) ==
    CASE admin = "alice" -> {"", "al", "ali", "alic"}
      [] admin = "ali" -> {"", "al"}
      [] OTHER -> {""}

\* parseLogLine on a whole line of the model: to is the account the line was
\* written for
parseLogLine(line) == [event |-> line.event, admin |-> line.admin, to |-> line.admin]

\* filtered.slice(-limit).reverse()
SliceReverse(filtered, limit) ==
    LET n == Len(filtered)
        from == IF limit = 0 \/ limit >= n THEN 1 ELSE n - limit + 1
        kept == SubSeq(filtered, from, n)
    IN [k \in 1..Len(kept) |-> kept[Len(kept) + 1 - k]]

SelectAll(parsed, adminUsername) == parsed

SelectAdmin(parsed, adminUsername) == SelectSeq(parsed, LAMBDA e : e.admin = adminUsername)

\* getNotificationsForAdmin without a since filter: one readLines of the log
\* outside the queue, which sees the part of a line an append has written
getNotificationsForAdmin(adminUsername, limit) ==
    /\ Listening
    /\ \E cut \in IF logs.partial = "notif"
                  THEN {<<>>} \cup
                       UNION {{<<[event |-> writeQueue[i].line.event, admin |-> c,
                                  to |-> writeQueue[i].line.admin]>> :
                                 c \in CutSegments(writeQueue[i].line.admin)} :
                              i \in {j \in 1..Len(writeQueue) :
                                        writeQueue[j].pc = "running" /\ writeQueue[j].op = "append"}}
                  ELSE {<<>>} :
         LET parsed == [k \in 1..Len(logs.notif) |-> parseLogLine(logs.notif[k])] \o cut
             filtered == SelectAdmin(parsed, adminUsername)
         IN resp' = [NoResponse EXCEPT !.route = "getNotificationsForAdmin",
                                       !.status = 200, !.ran = TRUE,
                                       !.req.username = adminUsername,
                                       !.lines = limit, !.torn = logs.partial = "notif",
                                       !.entries = SliceReverse(filtered, limit)]
    /\ UNCHANGED <<files, writeQueue, logs, audits, sockets, authVars, config, boot, limits>>

InitHistory ==
    /\ files = [EmptyStore EXCEPT
                    !.admins = MapSet(MapSet(MapSet(EmptyMap, ConfiguredPrimary,
                                                    bcryptHash(primaryAdminPassword, 1)),
                                             "alice", bcryptHash("StrongPass1!", 1)),
                                      "ali", bcryptHash("StrongPass1!", 1)),
                    !.primary = {ConfiguredPrimary},
                    !.deact = {ConfiguredPrimary}]
    /\ writeQueue = <<[Task("init", "", "", "", "undefined") EXCEPT !.pc = "ok", !.code = "OK"]>>
    /\ boot = [FirstStart(EmptyStore) EXCEPT !.runs = 1, !.first = files]
    /\ limits = [calls |-> MaxHistoryCalls, boots |-> 1, audits |-> MaxHistoryCalls]
    /\ logs = EmptyLogs /\ audits = <<>> /\ sockets = {}
    /\ reader = IdleReader /\ tokens = {}
    /\ resp = NoResponse /\ config = [admin2faEnforce |-> FALSE]

NextHistory ==
    \/ \E i \in 1..Len(writeQueue) : TaskStart(i)
    \/ \E i \in 1..Len(writeQueue) : TaskWrite(i)
    \/ \E i \in 1..Len(writeQueue) : AppendPartial(i)
    \/ \E a \in {"true", "false"} : updateUser("alice", "", a)
    \/ postAction("bob", "prayer_logged")
    \/ \E i \in 1..Len(audits), f \in {"admins", "deact"} : AdminsRead(i, f)
    \/ \E i \in 1..Len(audits) : PushToSockets(i, FALSE)
    \/ \E u \in HistoryAdmins, n \in 0..MaxLimit : getNotificationsForAdmin(u, n)

SpecHistory == InitHistory /\ [][NextHistory]_vars

\* the step in which a history request is answered
HistoryRead == resp' # resp /\ resp'.route = "getNotificationsForAdmin"

\* the audited actions recorded while the account was an active admin from
\* the call of recordUserAction to its return
RecordedFor(adminUsername) ==
    {i \in 1..Len(audits) :
        audits[i].pc = "done" /\ \A S \in audits[i].seen : adminUsername \in S}

\* a request whose limit is at least the number of the admin's records
WholeHistory ==
    resp'.lines = 0 \/
    resp'.lines >= Cardinality({k \in 1..Len(logs.notif) : logs.notif[k].admin = resp'.req.username})

Recovered ==
    (HistoryRead /\ WholeHistory) =>
        \A i \in RecordedFor(resp'.req.username) :
            \E k \in 1..Len(resp'.entries) :
                resp'.entries[k].event = i /\ resp'.entries[k].to = resp'.req.username

OwnRecordsOnly ==
    HistoryRead => \A k \in 1..Len(resp'.entries) : resp'.entries[k].to = resp'.req.username

\* C22 (as claimed): a getNotificationsForAdmin(A) with no since filter and a
\* limit at least the number of A's records returns the notification of every
\* action recorded while A was an active admin, and its result never contains
\* a record addressed to another admin.
C22_HistoryRecovery == [][Recovered /\ OwnRecordsOnly]_vars

\* C22 when the log holds whole lines only at the moment it is read: the same.
C22_HistoryOfWholeLines ==
    [][logs.partial # "notif" => (Recovered /\ OwnRecordsOnly)]_vars

----------------------------------------------------------------------------
(* SpecLogout: logout and later requests made with the session tokens of   *)
(* an admin, of a user who may be deactivated and of a deleted account,    *)
(* with tokens expiring and an admin connection open.  The caller makes    *)
(* one request at a time.                                                  *)

MaxLogoutCalls == 1    \* logouts audited

\* res.clearCookie: the cookie the answer tells the browser to drop
ClearedCookie == [sub |-> "", mfa |-> FALSE, issuedRole |-> "cleared"]

LogoutTokens ==
    {SessionToken("alice", Roles.ADMIN, FALSE), SessionToken("bob", Roles.USER, FALSE),
     SessionToken("carol", Roles.USER, FALSE)}

\* POST /logout from the return of optionalAuthenticate to its first await:
\* the cookie is cleared, and the logout of a resolved user is audited
logoutRevoking ==
    /\ reader.pc = "done"
    /\ resp.pc = ""
    /\ LET request == [NoResponse EXCEPT !.route = "POST /logout", !.user = ResolvedUser,
                                         !.req.username = reader.token.sub,
                                         !.cookie = ClearedCookie, !.ran = TRUE]
       IN IF ResolvedUser = NoUser
          THEN /\ resp' = [request EXCEPT !.status = 204]
               /\ UNCHANGED <<audits, writeQueue>>
          ELSE /\ Budget
               /\ recordUserAction(ResolvedUser.username, "logout")
               /\ resp' = [request EXCEPT !.pc = "audit", !.audit = Len(audits) + 1]
    /\ reader' = IdleReader
    /\ tokens' = tokens \ {reader.token}
    /\ UNCHANGED <<files, logs, sockets, config, boot, limits>>

logout ==
    /\ reader.pc = "done"
    /\ resp.pc = ""
    /\ LET request == [NoResponse EXCEPT !.route = "POST /logout", !.user = ResolvedUser,
                                         !.req.username = reader.token.sub,
                                         !.cookie = ClearedCookie, !.ran = TRUE]
       IN IF ResolvedUser = NoUser
          THEN /\ resp' = [request EXCEPT !.status = 204]
               /\ UNCHANGED <<audits, writeQueue>>
          ELSE /\ Budget
               /\ recordUserAction(ResolvedUser.username, "logout")
               /\ resp' = [request EXCEPT !.pc = "audit", !.audit = Len(audits) + 1]
    /\ reader' = IdleReader
    /\ UNCHANGED <<files, logs, sockets, tokens, config, boot, limits>>

\* recordUserAction has returned, and the route answers 204, or it has
\* thrown, and the error handler answers
logoutAnswered ==
    /\ resp.pc = "audit"
    /\ resp.route = "POST /logout"
    /\ audits[resp.audit].pc = "done"
    /\ resp' = [resp EXCEPT !.pc = "", !.status = IF audits[resp.audit].threw THEN 500 ELSE 204,
                            !.code = IF audits[resp.audit].threw THEN "INTERNAL_ERROR" ELSE ""]
    /\ UNCHANGED <<files, writeQueue, logs, audits, sockets, reader, tokens, config, boot, limits>>

\* GET /me: authenticateRequest, then the user is returned
me ==
    /\ reader.pc = "done"
    /\ resp.pc = ""
    /\ resp' = [NoResponse EXCEPT !.route = "GET /me", !.user = ResolvedUser,
                                  !.req.username = reader.token.sub,
                                  !.ran = reader.code = "OK",
                                  !.status = IF reader.code = "OK" THEN 200 ELSE 401,
                                  !.code = IF reader.code = "OK" THEN "" ELSE reader.code]
    /\ reader' = IdleReader
    /\ UNCHANGED <<files, writeQueue, logs, audits, sockets, tokens, config, boot, limits>>

\* the expiry time of a token passes: jwt.verify refuses it from then on
expire(token) ==
    /\ token \in tokens
    /\ tokens' = tokens \ {token}
    /\ UNCHANGED <<files, writeQueue, logs, audits, sockets, reader, resp, config, boot, limits>>

InitLogout ==
    /\ \E d \in SUBSET {"bob"} :
         files = [EmptyStore EXCEPT
                    !.admins = MapSet(MapSet(EmptyMap, ConfiguredPrimary,
                                             bcryptHash(primaryAdminPassword, 1)),
                                      "alice", bcryptHash("StrongPass1!", 1)),
                    !.primary = {ConfiguredPrimary},
                    !.users = MapSet(EmptyMap, "bob", bcryptHash("StrongPass1!", 1)),
                    !.deact = d \cup {ConfiguredPrimary}]
    /\ writeQueue = <<[Task("init", "", "", "", "undefined") EXCEPT !.pc = "ok", !.code = "OK"]>>
    /\ boot = [FirstStart(EmptyStore) EXCEPT !.runs = 1, !.first = files]
    /\ limits = [calls |-> MaxLogoutCalls, boots |-> 1, audits |-> MaxLogoutCalls]
    /\ logs = EmptyLogs /\ audits = <<>> /\ sockets = {}
    /\ reader = IdleReader
    /\ tokens = LogoutTokens
    /\ resp = NoResponse /\ config = [admin2faEnforce |-> FALSE]

NextLogout ==
    \/ \E i \in 1..Len(writeQueue) : TaskStart(i)
    \/ \E i \in 1..Len(writeQueue) : TaskWrite(i)
    \/ \E t \in LogoutTokens \cup {NoToken, ForgedToken} :
          resp = NoResponse /\ reader.pc = "idle" /\ authenticateToken(t)
    \/ \E f \in StoreFiles : TokenRead(f)
    \/ logout
    \/ logoutAnswered
    \/ me
    \/ requestOver
    \/ \E t \in LogoutTokens : expire(t)
    \/ registerSocket("alice", 1)
    \/ unregisterSocket("alice", 1)
    \/ \E i \in 1..Len(audits), f \in {"admins", "deact"} : AdminsRead(i, f)
    \/ \E i \in 1..Len(audits), threw \in BOOLEAN : PushToSockets(i, threw)

SpecLogout == InitLogout /\ [][NextLogout]_vars

\* a logout has been performed with a token of the account
LoggedOut(username) ==
    \E i \in 1..Len(audits) : audits[i].action = "logout" /\ audits[i].username = username

\* the files gave the account as existing and active all through the call
ActiveThroughout(r) == \A h \in r.hist : h.role # "null" /\ h.active

\* C23: logout changes neither the set of tokens jwt.verify accepts nor the
\* credential files, and an authenticateToken(T) made after a logout with T,
\* for an account that is active and a token that has not expired, succeeds.
C23_LogoutDoesNotRevoke ==
    [][/\ (resp' # resp /\ resp'.route = "POST /logout") => (tokens' = tokens /\ files' = files)
       /\ (/\ reader'.pc = "done" /\ reader.pc = "reading"
           /\ reader'.token \in tokens'
           /\ LoggedOut(reader'.sub)
           /\ ActiveThroughout(reader')) => reader'.code = "OK"]_vars

\* C23 witness: after its logout was audited, a request with the same token
\* of an active user has been authenticated and served by GET /me.
C23_Witness ==
    /\ resp.route = "GET /me" /\ resp.status = 200
    /\ resp.user.username = "bob"
    /\ LoggedOut("bob")
    /\ SessionToken("bob", Roles.USER, FALSE) \in tokens

\* a logout request has been answered
LogoutAnswered == resp.route = "POST /logout" /\ resp.pc = ""

\* the audit entry of the request: an activity line with action logout
LogoutAudited ==
    /\ resp.audit > 0
    /\ audits[resp.audit].action = "logout"
    /\ audits[resp.audit].username = resp.user.username
    /\ LinesOf(logs.activity, resp.audit) # {}

\* C24 (as claimed): POST /logout returns 204 and clears the session cookie
\* for every request, whatever its token, and an audit entry logout is
\* written if and only if the token resolved to a user.
C24_LogoutAlwaysSucceeds ==
    LogoutAnswered =>
        /\ resp.status = 204
        /\ resp.cookie = ClearedCookie
        /\ (resp.user # NoUser) <=> LogoutAudited

\* C24 when no send of the audit's push throws: the same.
C24_LogoutWhenNoSendThrows ==
    (LogoutAnswered /\ (resp.audit > 0 => ~audits[resp.audit].threw)) =>
        /\ resp.status = 204
        /\ resp.cookie = ClearedCookie
        /\ (resp.user # NoUser) <=> LogoutAudited

----------------------------------------------------------------------------
(* Promotion, checked under Spec.                                          *)

\* the order localeCompare gives the usernames of the model
Collation == <<"al", "ali", "alice", "bo b", "bob", "root">>
localeCompare(a, b) ==
    LET at(u) == CHOOSE k \in DOMAIN Collation : Collation[k] = u
    IN at(a) - at(b)

rolePriority(role) ==
    CASE role = Roles.PRIMARY_ADMIN -> 0
      [] role = Roles.ADMIN -> 1
      [] role = Roles.USER -> 2

\* listUsers on the four files as read: an entry for every key of the users
\* file, then one for every key of the admins file, sorted by role and name
listUsers(f) ==
    LET users == {[username |-> u, role |-> Roles.USER, isActive |-> u \notin f.deact] :
                     u \in DOMAIN f.users}
        admins == {[username |-> u,
                    role |-> IF u \in f.primary THEN Roles.PRIMARY_ADMIN ELSE Roles.ADMIN,
                    isActive |-> u \notin f.deact] : u \in DOMAIN f.admins}
        pushed == (CHOOSE o \in Orders(users) : TRUE) \o (CHOOSE o \in Orders(admins) : TRUE)
        before(a, b) ==
            LET roleDelta == rolePriority(a.role) - rolePriority(b.role)
            IN IF roleDelta # 0 THEN roleDelta < 0
               ELSE localeCompare(a.username, b.username) < 0
    IN SortSeq(pushed, before)

\* the roles listUsers gives a username, one for each entry of it
ListedAs(f, u) ==
    LET l == listUsers(f) IN [k \in {j \in DOMAIN l : l[j].username = u} |-> l[k].role]

ListedOnceAs(f, u, role) ==
    \E k \in DOMAIN listUsers(f) : ListedAs(f, u) = (k :> role)

Starting(i) == writeQueue[i].pc = "queued" /\ writeQueue'[i].pc # "queued"

\* C25: a promoteUserToAdmin task for a username of the admins file fails
\* with ALREADY_ADMIN, and for a username of neither credential file with
\* USER_NOT_FOUND, and then no file changes; a task for a regular user keeps
\* the hash the users file had for the user when it started, and when it has
\* succeeded the user is absent from the users file, in the admins file with
\* that hash, and listed by listUsers exactly once, with role admin.
C25_PromotionPostcondition ==
    [][\A i \in Calls :
          (writeQueue[i].op = "promote" /\ writeQueue'[i] # writeQueue[i]) =>
              LET U == writeQueue[i].username
                  before == writeQueue[i]
                  after == writeQueue'[i]
              IN /\ (Starting(i) /\ Has(files.admins, U)) =>
                        /\ after.pc = "err" /\ after.code = "ALREADY_ADMIN"
                        /\ after.writes = <<>> /\ files' = files
                 /\ (Starting(i) /\ ~Has(files.admins, U) /\ ~Has(files.users, U)) =>
                        /\ after.pc = "err" /\ after.code = "USER_NOT_FOUND"
                        /\ after.writes = <<>> /\ files' = files
                 /\ (Starting(i) /\ ~Has(files.admins, U) /\ Has(files.users, U)) =>
                        /\ after.pc = "running" /\ after.code = "OK"
                        /\ after.mem.admins[U] = files.users[U]
                 /\ before.pc = "err" => FALSE
                 /\ (before.pc = "running" /\ after.pc = "running") => after.mem = before.mem
                 /\ (before.pc = "running" /\ after.pc = "ok") =>
                        /\ ~Has(files'.users, U)
                        /\ Has(files'.admins, U)
                        /\ files'.admins[U] = before.mem.admins[U]
                        /\ ListedOnceAs(files', U, Roles.ADMIN)]_vars

\* a promotion of a regular user has succeeded
C25_Witness ==
    \E i \in Calls :
        /\ writeQueue[i].op = "promote" /\ writeQueue[i].pc = "ok"
        /\ \E j \in 1..(i - 1) : writeQueue[j].op = "create"
                                 /\ writeQueue[j].username = writeQueue[i].username
                                 /\ writeQueue[j].code = "OK"
        /\ ListedOnceAs(files, writeQueue[i].username, Roles.ADMIN)

----------------------------------------------------------------------------
(* SpecCorrupt: login, enableTwoFactor and disableTwoFactor on an admin    *)
(* whose two-factor record holds a secret that may not decrypt.            *)

MaxCorruptCalls == 1    \* calls made: two-factor calls and logins that succeed
CorruptUsernames == {"alice", " Alice "}

InitCorrupt ==
    /\ \E s \in Secrets, v \in {"v1"} \cup UnreadableSecrets, enabled \in BOOLEAN :
         files = [EmptyStore EXCEPT
                    !.admins = MapSet(MapSet(EmptyMap, ConfiguredPrimary,
                                             bcryptHash(primaryAdminPassword, 1)),
                                      "alice", bcryptHash("StrongPass1!", 1)),
                    !.primary = {ConfiguredPrimary},
                    !.twofa = RecordSet(EmptyRecords, "alice",
                                 [secret |-> [v |-> v, plain |-> s], enabled |-> enabled,
                                  enabledAt |-> IF enabled THEN "now" ELSE "null"])]
    /\ writeQueue = <<[Task("init", "", "", "", "undefined") EXCEPT !.pc = "ok", !.code = "OK"]>>
    /\ boot = [FirstStart(EmptyStore) EXCEPT !.runs = 1, !.first = files]
    /\ limits = [calls |-> MaxCorruptCalls, boots |-> 1, audits |-> MaxCorruptCalls]
    /\ logs = EmptyLogs /\ audits = <<>> /\ sockets = {}
    /\ reader = IdleReader /\ tokens = {}
    /\ resp = NoResponse /\ config = [admin2faEnforce |-> FALSE]

NextCorrupt ==
    \/ \E i \in 1..Len(writeQueue) : TaskStart(i)
    \/ \E i \in 1..Len(writeQueue) : TaskWrite(i)
    \/ \E u \in CorruptUsernames, p \in LoginPasswords, o \in RawOtps : login(u, p, o)
    \/ \E u \in CorruptUsernames, o \in RawOtps : enableTwoFactor(u, o)
    \/ \E u \in CorruptUsernames, o \in RawOtps : disableTwoFactor(u, o)
    \/ \E i \in 1..Len(audits), f \in {"admins", "deact"} : AdminsRead(i, f)
    \/ \E i \in 1..Len(audits) : PushToSockets(i, FALSE)

SpecCorrupt == InitCorrupt /\ [][NextCorrupt]_vars

\* the stored record of a username does not decrypt to a secret
Unreadable(f, u) == u \in DOMAIN f.twofa /\ f.twofa[u].secret.v \in UnreadableSecrets

RecordKept(u) == u \in DOMAIN files'.twofa /\ files'.twofa[u] = files.twofa[u]

\* a two-factor task called on an unreadable record fails with the code
\* given and plans no write
FailsWith(i, code) ==
    /\ writeQueue'[i].pc = "err" /\ writeQueue'[i].code = code
    /\ writeQueue'[i].writes = <<>> /\ files' = files

ServerError(i) ==
    /\ writeQueue'[i].pc = "err" /\ StatusOfCode(writeQueue'[i].code) >= 500
    /\ writeQueue'[i].writes = <<>> /\ files' = files

\* C26 (as claimed): for a username whose stored record does not decrypt to
\* a secret, a login with two-factor enabled, an enableTwoFactor and a
\* disableTwoFactor each fail with a 5xx status for every otp, no session
\* token is issued and the record stays as it was.
C26_CorruptSecretNeverBypassed ==
    [][/\ (SecondFactorDue /\ Unreadable(files, Named)) =>
              resp'.status >= 500 /\ NoSession /\ RecordKept(Named)
       /\ \A i \in 1..Len(writeQueue) :
              (/\ Starting(i) /\ writeQueue[i].op \in {"2fa-verify", "2fa-disable"}
               /\ Unreadable(files, writeQueue[i].username)) => ServerError(i)
       /\ \A u \in DOMAIN files.twofa : Unreadable(files, u) => RecordKept(u)]_vars

\* C26 (amended): on such a record every one of the three operations fails,
\* no session token is issued and the record stays as it was.  The login is
\* refused with 401 TOTP_REQUIRED when the otp is absent or the empty string,
\* with 400 INVALID_OTP when it is not six digits once trimmed, and with 500
\* TOTP_SECRET_INVALID when it is six digits.  enableTwoFactor and
\* disableTwoFactor with six digits fail with 500 TOTP_SECRET_INVALID when
\* the record is in the state they act on (pending, enabled), and else with
\* 400 NO_PENDING_2FA and 400 TOTP_NOT_ENABLED.
C26_CorruptSecretFails ==
    [][/\ (SecondFactorDue /\ Unreadable(files, Named)) =>
              LET otp == resp'.req.otp
              IN /\ NoOtp(otp) => Refused(401, "TOTP_REQUIRED")
                 /\ (~NoOtp(otp) /\ ~validOtp(otp)) => Refused(400, "INVALID_OTP")
                 /\ validOtp(otp) => Refused(500, "TOTP_SECRET_INVALID")
                 /\ RecordKept(Named)
       /\ \A i \in 1..Len(writeQueue) :
              LET t == writeQueue[i]
              IN (Starting(i) /\ Unreadable(files, t.username)) =>
                    /\ t.op = "2fa-verify" =>
                          FailsWith(i, IF files.twofa[t.username].enabled
                                       THEN "NO_PENDING_2FA" ELSE "TOTP_SECRET_INVALID")
                    /\ t.op = "2fa-disable" =>
                          FailsWith(i, IF files.twofa[t.username].enabled
                                       THEN "TOTP_SECRET_INVALID" ELSE "TOTP_NOT_ENABLED")
       /\ \A u \in DOMAIN files.twofa : Unreadable(files, u) => RecordKept(u)]_vars

\* a login with the right password and six digits was refused for the
\* secret, and an enableTwoFactor or disableTwoFactor has failed for it too
C26_Witness ==
    /\ Unreadable(files, "alice")
    /\ resp.route = "POST /login" /\ resp.code = "TOTP_SECRET_INVALID"
    /\ validOtp(resp.req.otp) /\ resp.cookie = NoToken /\ tokens = {}
    /\ \E i \in 1..Len(writeQueue) :
          /\ writeQueue[i].op \in {"2fa-verify", "2fa-disable"}
          /\ writeQueue[i].code = "TOTP_SECRET_INVALID"

----------------------------------------------------------------------------
(* The order of the write queue, checked under Spec.                       *)

\* the task at a position of the queue: tasks are appended to the chain and
\* keep their place
SameTask(a, b) ==
    /\ a.op = b.op /\ a.username = b.username /\ a.password = b.password
    /\ a.role = b.role /\ a.isActive = b.isActive

\* C27: the tasks of the queue keep the order in which enqueueWrite was
\* called; whenever a task has started, every task enqueued before it has
\* settled, with success or with an error, and a settled task stays settled.
C27_QueueOrder ==
    [][/\ \A i \in Calls : SameTask(writeQueue'[i], writeQueue[i])
       /\ \A i \in Calls : Settled(writeQueue[i]) => writeQueue'[i] = writeQueue[i]
       /\ \A i, j \in 1..Len(writeQueue') :
             (i < j /\ writeQueue'[j].pc # "queued") => Settled(writeQueue'[i])]_vars

\* a task enqueued while an earlier task was waiting has run after that
\* task failed
C27_Witness ==
    \E i, j \in Calls :
        /\ i < j
        /\ writeQueue[i].pc = "err"
        /\ writeQueue[j].ahead >= 1
        /\ writeQueue[j].pc = "ok"

----------------------------------------------------------------------------
(* SpecPrimary: the account-management routes of the admin router, called  *)
(* by the primary admin on every account, the primary admin's own          *)
(* included.  PATCH reads the target with getUserByUsername before it      *)
(* calls updateUser; the other routes call their service at once.          *)

MaxPrimaryCalls == 2
PrimaryTargets == {"root", "ROOT", "bob"}
\* the bodies of the PATCH requests made: a deactivation, a new password
PatchBodies == {[password |-> "", isActive |-> "false"],
                [password |-> "StrongPass1!", isActive |-> "undefined"]}

\* the checks of PATCH /users/:username on what getUserByUsername returned
PatchVerdictOpen(existing) ==
    IF ~existing.found THEN Verdict(404, "USER_NOT_FOUND") ELSE Pass

PatchVerdict(existing) ==
    IF ~existing.found THEN Verdict(404, "USER_NOT_FOUND")
    ELSE IF existing.role = Roles.PRIMARY_ADMIN THEN Verdict(403, "PRIMARY_PROTECTED")
    ELSE Pass

\* PATCH /users/:username up to its first await: getUserByUsername has
\* started its four reads
patchUser(target, password, isActive) ==
    /\ Listening /\ Budget
    /\ resp = NoResponse /\ reader.pc = "idle"
    /\ reader' = [IdleReader EXCEPT !.pc = "reading", !.sub = normalizeUsername(target),
                                    !.pend = StoreFiles,
                                    !.hist = {Status(files, normalizeUsername(target))},
                                    !.hashes = {HashOf(files, normalizeUsername(target))}]
    /\ resp' = [NoResponse EXCEPT
                   !.route = "PATCH /users/:username", !.pc = "read", !.ran = TRUE,
                   !.user = [username |-> ConfiguredPrimary, role |-> Roles.PRIMARY_ADMIN,
                             mfaVerified |-> FALSE],
                   !.req = [username |-> target, password |-> password, otp |-> "",
                            isActive |-> isActive]]
    /\ UNCHANGED <<files, writeQueue, logs, audits, sockets, tokens, config, boot, limits>>

\* one readLines of the PATCH's getUserByUsername completes; after the last
\* the handler throws, or calls updateUser, which validates and enqueues
existingRead(file) ==
    /\ resp.pc = "read"
    /\ reader.pc = "reading"
    /\ file \in reader.pend
    /\ LET snap == [reader.snap EXCEPT ![file] = files[file]]
           verdict == PatchVerdict(getUserByUsername(reader.sub, snap))
           r == resp.req
       IN IF reader.pend # {file}
          THEN /\ reader' = [reader EXCEPT !.pend = @ \ {file}, !.snap = snap]
               /\ UNCHANGED <<resp, writeQueue>>
          ELSE /\ reader' = IdleReader
               /\ IF verdict # Pass
                  THEN /\ resp' = Answered(resp, verdict.status, verdict.code)
                       /\ UNCHANGED writeQueue
                  ELSE IF ~validateUsername(r.username)
                  THEN /\ resp' = Answered(resp, 400, "INVALID_USERNAME")
                       /\ UNCHANGED writeQueue
                  ELSE IF r.password # "" /\ ~validatePassword(r.password)
                  THEN /\ resp' = Answered(resp, 400, "WEAK_PASSWORD")
                       /\ UNCHANGED writeQueue
                  ELSE IF r.isActive = "undefined" /\ r.password = ""
                  THEN /\ resp' = Answered(resp, 400, "NO_UPDATES")
                       /\ UNCHANGED writeQueue
                  ELSE /\ writeQueue' = enqueueWrite(writeQueue,
                              [Task("update", normalizeUsername(r.username), r.password, "",
                                    r.isActive) EXCEPT !.by = resp.user])
                       /\ resp' = [resp EXCEPT !.pc = "call", !.task = Len(writeQueue) + 1]
    /\ UNCHANGED <<files, logs, audits, sockets, tokens, config, boot, limits>>

InitPrimary ==
    /\ \E d \in SUBSET {"bob"} :
         files = [EmptyStore EXCEPT
                    !.admins = MapSet(MapSet(EmptyMap, ConfiguredPrimary,
                                             bcryptHash(primaryAdminPassword, 1)),
                                      "alice", bcryptHash("StrongPass1!", 1)),
                    !.primary = {ConfiguredPrimary},
                    !.users = MapSet(EmptyMap, "bob", bcryptHash("StrongPass1!", 1)),
                    !.deact = d]
    /\ writeQueue = <<[Task("init", "", "", "", "undefined") EXCEPT !.pc = "ok", !.code = "OK"]>>
    /\ boot = [FirstStart(EmptyStore) EXCEPT !.runs = 1, !.first = files]
    /\ limits = [calls |-> MaxPrimaryCalls, boots |-> 1, audits |-> 1]
    /\ logs = EmptyLogs /\ audits = <<>> /\ sockets = {}
    /\ reader = IdleReader /\ tokens = {}
    /\ resp = NoResponse /\ config = [admin2faEnforce |-> FALSE]

NextPrimary ==
    \/ \E i \in 1..Len(writeQueue) : TaskStart(i)
    \/ \E i \in 1..Len(writeQueue) : TaskWrite(i)
    \/ \E t \in PrimaryTargets, b \in PatchBodies : patchUser(t, b.password, b.isActive)
    \/ \E f \in StoreFiles : existingRead(f)
    \/ adminCalled
    \/ adminAnswered
    \/ requestOver
    \/ \E t \in PrimaryTargets : createUser(t, "StrongPass1!", Roles.USER)
    \/ \E t \in PrimaryTargets : deleteUser(t)
    \/ \E t \in PrimaryTargets : promoteUserToAdmin(t)
    \/ \E i \in 1..Len(audits), f \in {"admins", "deact"} : AdminsRead(i, f)
    \/ \E i \in 1..Len(audits) : PushToSockets(i, FALSE)

SpecPrimary == InitPrimary /\ [][NextPrimary]_vars

IsPrimary(f, u) == resolveRoleForUsername(u, f.admins, f.primary, f.users) = Roles.PRIMARY_ADMIN

\* the PATCH whose read of the target completes in the step
PatchDecided == resp.pc = "read" /\ resp'.pc # "read"

\* C28: no step changes the role, the password hash or the active flag of a
\* primary admin; a PATCH for a primary admin is answered 403
\* PRIMARY_PROTECTED without calling updateUser, a deleteUser for one fails
\* with PRIMARY_ADMIN_PROTECTED, a createUser with USER_EXISTS and
\* a promoteUserToAdmin with ALREADY_ADMIN, and none of them writes a file;
\* updateUser is never called for one.
C28_PrimaryAdminImmutable ==
    [][/\ \A u \in DOMAIN files.admins :
             IsPrimary(files, u) =>
                /\ Status(files', u) = Status(files, u)
                /\ HashOf(files', u) = HashOf(files, u)
       /\ (PatchDecided /\ IsPrimary(files, reader.sub)) =>
             /\ resp'.status = 403 /\ resp'.code = "PRIMARY_PROTECTED"
             /\ writeQueue' = writeQueue /\ files' = files
       /\ \A i \in 1..Len(writeQueue) :
             (/\ Starting(i) /\ writeQueue[i].op \in {"create", "update", "delete", "promote"}
              /\ IsPrimary(files, writeQueue[i].username)) =>
                 /\ writeQueue'[i].pc = "err" /\ writeQueue'[i].writes = <<>>
                 /\ writeQueue'[i].code =
                       CASE writeQueue[i].op = "create" -> "USER_EXISTS"
                         [] writeQueue[i].op = "delete" -> "PRIMARY_ADMIN_PROTECTED"
                         [] writeQueue[i].op = "promote" -> "ALREADY_ADMIN"
                         [] OTHER -> "none"]_vars

\* a PATCH for the primary admin was refused, and a deleteUser for the
\* primary admin has failed
C28_Witness ==
    /\ resp.route = "PATCH /users/:username" /\ resp.code = "PRIMARY_PROTECTED"
    /\ normalizeUsername(resp.req.username) = ConfiguredPrimary
    /\ \E i \in 1..Len(writeQueue) :
          /\ writeQueue[i].op = "delete" /\ writeQueue[i].username = ConfiguredPrimary
          /\ writeQueue[i].code = "PRIMARY_ADMIN_PROTECTED"

----------------------------------------------------------------------------
(* SpecChrono: audited actions recorded as the clock advances and the      *)
(* offset of local time changes.                                           *)

MaxChronoCalls == 2
MaxClock == 1          \* the instants new Date() returns
Offsets == {0, 2}      \* local time ahead of UTC: standard time, summer time

\* what new Date() can return: an instant not before that of the call made
\* last, with the offset local time has at that instant
Now ==
    IF audits = <<>>
    THEN {Date(utc, offset) : utc \in 0..MaxClock, offset \in Offsets}
    ELSE LET last == audits[Len(audits)].timestamp
         IN {last} \cup {Date(utc, offset) : utc \in (last.utc + 1)..MaxClock,
                                             offset \in Offsets}

postActionAt(username, action, timestamp) ==
    /\ Listening
    /\ Budget
    /\ Len(audits) < limits.audits
    /\ timestamp \in Now
    /\ IF action = "" THEN Reject("MISSING_ACTION")
       ELSE /\ recordUserActionAt(username, action, timestamp)
            /\ UNCHANGED <<resp, config, files, logs, sockets, authVars, boot, limits>>

InitChrono ==
    /\ files = [EmptyStore EXCEPT
                    !.admins = MapSet(EmptyMap, ConfiguredPrimary,
                                      bcryptHash(primaryAdminPassword, 1)),
                    !.primary = {ConfiguredPrimary},
                    !.users = MapSet(EmptyMap, "bob", bcryptHash("StrongPass1!", 1))]
    /\ writeQueue = <<[Task("init", "", "", "", "undefined") EXCEPT !.pc = "ok", !.code = "OK"]>>
    /\ boot = [FirstStart(EmptyStore) EXCEPT !.runs = 1, !.first = files]
    /\ limits = [calls |-> MaxChronoCalls, boots |-> 1, audits |-> MaxChronoCalls]
    /\ logs = EmptyLogs /\ audits = <<>> /\ sockets = {}
    /\ reader = IdleReader /\ tokens = {}
    /\ resp = NoResponse /\ config = [admin2faEnforce |-> FALSE]

NextChrono ==
    \/ \E i \in 1..Len(writeQueue) : TaskStart(i)
    \/ \E i \in 1..Len(writeQueue) : TaskWrite(i)
    \/ \E a \in AuditActions, utc \in 0..MaxClock, offset \in Offsets :
          postActionAt("bob", a, Date(utc, offset))
    \/ \E i \in 1..Len(audits), f \in {"admins", "deact"} : AdminsRead(i, f)
    \/ \E i \in 1..Len(audits) : PushToSockets(i, FALSE)

SpecChrono == InitChrono /\ [][NextChrono]_vars

\* the timestamp written in a line of the activity log
TimestampOf(line) == formatLogTimestamp(audits[line.event].timestamp)

NonDecreasing(log) ==
    \A k, l \in 1..Len(log) : k < l => TimestampOf(log[k]) <= TimestampOf(log[l])

AppendOnly(old, new) == Len(old) <= Len(new) /\ \A k \in 1..Len(old) : new[k] = old[k]

\* C29 (as claimed): the timestamps of the lines of the activity log are
\* non-decreasing in file order.
C29_ActivityLogChronological == NonDecreasing(logs.activity)

\* C29, the rest of the claim: the lines of the activity log are in the
\* order of the calls of recordUserAction, a line once appended is never
\* modified, reordered or removed, and the timestamps are non-decreasing in
\* file order when the offset of local time is the same for all the calls.
C29_ActivityLogInCallOrder ==
    [][/\ AppendOnly(logs.activity, logs'.activity)
       /\ \A k, l \in 1..Len(logs'.activity) :
             k < l => logs'.activity[k].event < logs'.activity[l].event
       /\ (\A i, j \in 1..Len(audits') :
              audits'[i].timestamp.offset = audits'[j].timestamp.offset)
             => NonDecreasing(logs'.activity)]_vars

----------------------------------------------------------------------------
(* SpecCreate: createUser calls made together, for names that exist, in    *)
(* either case, and for a new name the deactivated file still lists.       *)

MaxCreateCalls == 3
CreateUsernames == {"alice", "ALICE", "bob", "ROOT"}

InitCreate ==
    /\ \E d \in SUBSET {"alice", "bob"} :
         files = [EmptyStore EXCEPT
                    !.admins = MapSet(EmptyMap, ConfiguredPrimary,
                                      bcryptHash(primaryAdminPassword, 1)),
                    !.primary = {ConfiguredPrimary},
                    !.users = MapSet(EmptyMap, "bob", bcryptHash("StrongPass1!", 1)),
                    !.deact = d]
    /\ writeQueue = <<[Task("init", "", "", "", "undefined") EXCEPT !.pc = "ok", !.code = "OK"]>>
    /\ boot = [FirstStart(EmptyStore) EXCEPT !.runs = 1, !.first = files]
    /\ limits = [calls |-> MaxCreateCalls, boots |-> 1, audits |-> 0]
    /\ logs = EmptyLogs /\ audits = <<>> /\ sockets = {}
    /\ reader = IdleReader /\ tokens = {}
    /\ resp = NoResponse /\ config = [admin2faEnforce |-> FALSE]

NextCreate ==
    \/ \E i \in 1..Len(writeQueue) : TaskStart(i)
    \/ \E i \in 1..Len(writeQueue) : TaskWrite(i)
    \/ \E u \in CreateUsernames, r \in {Roles.USER, Roles.ADMIN} :
          createUser(u, "StrongPass1!", r)

SpecCreate == InitCreate /\ [][NextCreate]_vars

Exists(f, u) == Has(f.users, u) \/ Has(f.admins, u)

\* the createUser calls made for a name, and those of them that succeeded
CreatesOf(q, u) == {i \in 1..Len(q) : q[i].op = "create" /\ q[i].username = u}
Created(q, u) == {i \in CreatesOf(q, u) : q[i].pc = "ok"}

\* C30: a createUser task for a name that is in the users file or the admins
\* file fails with USER_EXISTS and no file changes; one for a new name
\* succeeds, and when it has the name is in the file of its role and not in
\* the deactivated file; of the createUser calls made for one name, once all
\* have settled, exactly one has succeeded when the name was new and none
\* when it existed.
C30_CreateRejectsDuplicates ==
    [][/\ \A i \in 1..Len(writeQueue) :
             LET t == writeQueue[i]
                 after == writeQueue'[i]
             IN (t.op = "create" /\ after # t) =>
                   /\ (Starting(i) /\ Exists(files, t.username)) =>
                         /\ after.pc = "err" /\ after.code = "USER_EXISTS"
                         /\ after.writes = <<>> /\ files' = files
                   /\ (Starting(i) /\ ~Exists(files, t.username)) =>
                         after.pc = "running" /\ after.code = "OK"
                   /\ t.pc # "err"
                   /\ after.pc = "ok" =>
                         /\ Has(IF t.role = Roles.ADMIN THEN files'.admins ELSE files'.users,
                                t.username)
                         /\ t.username \notin files'.deact
       /\ \A u \in {normalizeUsername(raw) : raw \in CreateUsernames} :
             (CreatesOf(writeQueue', u) # {}
              /\ \A i \in CreatesOf(writeQueue', u) : Settled(writeQueue'[i])) =>
                 Cardinality(Created(writeQueue', u)) =
                     IF Exists(boot.first, u) THEN 0 ELSE 1]_vars

\* three createUser calls for a new name that the deactivated file listed
\* were in the queue together; one has succeeded and two have failed
C30_Witness ==
    /\ "alice" \in boot.first.deact
    /\ Cardinality(CreatesOf(writeQueue, "alice")) = 3
    /\ \A i \in CreatesOf(writeQueue, "alice") : Settled(writeQueue[i])
    /\ \E i \in CreatesOf(writeQueue, "alice") : writeQueue[i].ahead >= 2
    /\ Cardinality(Created(writeQueue, "alice")) = 1
    /\ "alice" \notin files.deact

----------------------------------------------------------------------------
(* SpecQueue: the credential calls of Spec, with the event loop running    *)
(* every continuation that is ready: a task whose predecessor has settled  *)
(* is called, and a write that was started completes.                      *)

SpecQueue ==
    /\ Init /\ [][Next]_vars
    /\ WF_vars(\E i \in 1..Len(writeQueue) : TaskStart(i))
    /\ WF_vars(\E i \in 1..Len(writeQueue) : TaskWrite(i))

\* the outcome of the task called in a step is the one its own body gives on
\* the files as they are
OwnOutcome(i) ==
    \E salt \in Salts :
        LET r == RunTask(writeQueue[i], files, salt)
        IN /\ writeQueue'[i].code = r.code
           /\ (writeQueue'[i].pc = "err") = (r.code # "OK")

\* C31: the outcome of a task is that of its own body, whatever the tasks
\* before it returned or threw, and the step that settles a task changes the
\* record of no other call; every enqueued task is eventually called and
\* eventually settles.
C31_QueueIsolationAndProgress ==
    /\ [][\A i \in Calls :
             /\ Starting(i) => OwnOutcome(i)
             /\ writeQueue'[i] # writeQueue[i] =>
                   \A j \in Calls \ {i} : writeQueue'[j] = writeQueue[j]]_vars
    /\ \A i \in 1..(MaxCalls + 1) :
          (Len(writeQueue) >= i) ~> (Len(writeQueue) >= i /\ Settled(writeQueue[i]))

\* two calls were in the queue together and both have failed, each with an
\* error of its own
C31_Witness ==
    \E i, j \in Calls :
        /\ i < j
        /\ writeQueue[i].pc = "err" /\ writeQueue[j].pc = "err"
        /\ writeQueue[j].ahead >= 1
        /\ writeQueue[i].code # writeQueue[j].code

----------------------------------------------------------------------------
(* SpecGate: requests to the routes registered after the enforcement       *)
(* middleware, made by the primary admin and an admin whose two-factor     *)
(* records are set up, confirmed and reset along the way.                  *)

MaxGateCalls == 2
GateTargets == {"alice"}
GateRoutes == GatedRoutes \cup ReportRoutes \cup {"POST /security/2fa/reset"}

InitGate ==
    /\ \E e \in SUBSET {ConfiguredPrimary, "alice"} :
         files = [EmptyStore EXCEPT
                    !.admins = MapSet(MapSet(EmptyMap, ConfiguredPrimary,
                                             bcryptHash(primaryAdminPassword, 1)),
                                      "alice", bcryptHash("StrongPass1!", 1)),
                    !.primary = {ConfiguredPrimary},
                    !.users = MapSet(EmptyMap, "bob", bcryptHash("StrongPass1!", 1)),
                    !.twofa = [u \in e |-> Enabled2fa(1)]]
    /\ writeQueue = <<[Task("init", "", "", "", "undefined") EXCEPT !.pc = "ok", !.code = "OK"]>>
    /\ boot = [FirstStart(EmptyStore) EXCEPT !.runs = 1, !.first = files]
    /\ limits = [calls |-> MaxGateCalls, boots |-> 1, audits |-> 1]
    /\ logs = EmptyLogs /\ audits = <<>> /\ sockets = {}
    /\ reader = IdleReader
    /\ tokens = {SessionToken(ConfiguredPrimary, Roles.PRIMARY_ADMIN, m) : m \in BOOLEAN}
                  \cup {SessionToken("alice", Roles.ADMIN, m) : m \in BOOLEAN}
    /\ resp = NoResponse
    /\ config \in [admin2faEnforce : BOOLEAN]

NextGate ==
    \/ \E i \in 1..Len(writeQueue) : TaskStart(i)
    \/ \E i \in 1..Len(writeQueue) : TaskWrite(i)
    \/ \E t \in tokens :
          resp = NoResponse /\ reader.pc = "idle" /\ Budget /\ authenticateToken(t)
    \/ \E f \in StoreFiles : TokenRead(f)
    \/ requestOver
    \/ \E r \in GateRoutes, t \in GateTargets : adminRequest(r, t)
    \/ adminGate
    \/ adminCalled
    \/ adminAnswered
    \/ \E i \in 1..Len(audits), f \in {"admins", "deact"} : AdminsRead(i, f)
    \/ \E i \in 1..Len(audits) : PushToSockets(i, FALSE)

SpecGate == InitGate /\ [][NextGate]_vars

\* the handler of a request starts in the step
HandlerStarts == ~resp.ran /\ resp'.ran

\* C32: when the enforcement flag is set, the handler of a route registered
\* after the enforcement middleware (analytics, user list, notification
\* poll, user management, audit log, system) starts only for a request whose
\* account has an enabled 2FA record at that moment and whose token is
\* MFA-verified.
C32_GateBeforeHandlers ==
    [][(/\ HandlerStarts
        /\ config.admin2faEnforce
        /\ resp'.route \in GatedRoutes \cup ReportRoutes) =>
            /\ hasTwoFactorEnabled(files.twofa, resp'.user.username)
            /\ resp'.user.mfaVerified
            /\ resp'.cookie.mfa]_vars

\* with the flag set, the handler of an analytics, audit-log or system route
\* has run for an admin with an enabled record and an MFA-verified token
C32_Witness ==
    /\ config.admin2faEnforce
    /\ resp.route \in ReportRoutes /\ resp.ran
    /\ resp.user.role = Roles.ADMIN /\ resp.user.mfaVerified
    /\ hasTwoFactorEnabled(files.twofa, resp.user.username)

----------------------------------------------------------------------------
(* SpecMfa: the three places that sign a session token, POST /login and    *)
(* POST /security/2fa/verify and /disable of the admin router, called for  *)
(* an admin whose 2FA record is absent, pending or enabled.  The caller    *)
(* makes one request at a time.                                            *)

MaxMfaCalls == 2
MfaPasswords == {"", "StrongPass1!", "WrongPass1!"}
MfaOtps == {"undefined", "111111", "222222", "12ab"}

\* req.user of the admin's session
AdminSession(mfaVerified) ==
    [username |-> "alice", role |-> Roles.ADMIN, mfaVerified |-> mfaVerified]

\* the mfaVerified the route passes to createSessionToken
MfaFlagAlways(route) == TRUE
MfaFlag(route) == route = "POST /security/2fa/verify"

\* POST /security/2fa/verify up to its await: enableTwoFactor has validated
\* the otp and enqueued its task
twoFactorVerify(user, rawOtp) ==
    /\ Listening /\ Budget
    /\ resp = NoResponse
    /\ LET request == [NoResponse EXCEPT !.route = "POST /security/2fa/verify", !.ran = TRUE,
                                         !.user = user, !.req.otp = rawOtp]
       IN IF ~validOtp(rawOtp)
          THEN /\ resp' = Answered(request, 400, "INVALID_OTP")
               /\ UNCHANGED writeQueue
          ELSE /\ writeQueue' = enqueueWrite(writeQueue,
                      [TwoFactorTask("2fa-verify", user.username, otpTrim(rawOtp), 0)
                          EXCEPT !.by = user])
               /\ resp' = [request EXCEPT !.pc = "call", !.task = Len(writeQueue) + 1]
    /\ UNCHANGED <<files, logs, audits, sockets, reader, tokens, config, boot, limits>>

\* POST /security/2fa/disable up to the await of disableTwoFactor: the
\* password is checked with authenticateUser first
twoFactorDisable(user, password, rawOtp) ==
    /\ Listening /\ Budget
    /\ resp = NoResponse
    /\ LET request == [NoResponse EXCEPT !.route = "POST /security/2fa/disable", !.ran = TRUE,
                                         !.user = user, !.req.password = password,
                                         !.req.otp = rawOtp]
       IN IF password = ""
          THEN /\ resp' = Answered(request, 400, "MISSING_PASSWORD")
               /\ UNCHANGED writeQueue
          ELSE IF ~authenticateUser(files, user.username, password).found
          THEN /\ resp' = Answered(request, 401, "INVALID_CREDENTIALS")
               /\ UNCHANGED writeQueue
          ELSE IF ~validOtp(rawOtp)
          THEN /\ resp' = Answered(request, 400, "INVALID_OTP")
               /\ UNCHANGED writeQueue
          ELSE /\ writeQueue' = enqueueWrite(writeQueue,
                      [TwoFactorTask("2fa-disable", user.username, otpTrim(rawOtp), 0)
                          EXCEPT !.by = user])
               /\ resp' = [request EXCEPT !.pc = "call", !.task = Len(writeQueue) + 1]
    /\ UNCHANGED <<files, logs, audits, sockets, reader, tokens, config, boot, limits>>

\* the service call of the two routes has settled: its error is answered,
\* or the token is signed, the cookie set and recordUserAction called
twoFactorCalled ==
    /\ resp.pc = "call"
    /\ resp.route \in {"POST /security/2fa/verify", "POST /security/2fa/disable"}
    /\ Settled(writeQueue[resp.task])
    /\ IF writeQueue[resp.task].pc = "err"
       THEN /\ resp' = Answered(resp, StatusOfCode(writeQueue[resp.task].code),
                                    writeQueue[resp.task].code)
            /\ UNCHANGED <<audits, writeQueue, tokens>>
       ELSE LET token == SessionToken(resp.user.username, resp.user.role, MfaFlag(resp.route))
            IN /\ tokens' = tokens \cup {token}
               /\ recordUserAction(resp.user.username, resp.route)
               /\ resp' = [resp EXCEPT !.pc = "audit", !.audit = Len(audits) + 1,
                                       !.cookie = token]
    /\ UNCHANGED <<files, logs, sockets, reader, config, boot, limits>>

InitMfa ==
    /\ \E s \in Secrets, e \in {"none", "pending", "enabled"} :
         files = [EmptyStore EXCEPT
                    !.admins = MapSet(MapSet(EmptyMap, ConfiguredPrimary,
                                             bcryptHash(primaryAdminPassword, 1)),
                                      "alice", bcryptHash("StrongPass1!", 1)),
                    !.primary = {ConfiguredPrimary},
                    !.twofa = IF e = "none" THEN EmptyRecords
                              ELSE RecordSet(EmptyRecords, "alice",
                                     [secret |-> encryptSecret(s), enabled |-> e = "enabled",
                                      enabledAt |-> IF e = "enabled" THEN "now" ELSE "null"])]
    /\ writeQueue = <<[Task("init", "", "", "", "undefined") EXCEPT !.pc = "ok", !.code = "OK"]>>
    /\ boot = [FirstStart(EmptyStore) EXCEPT !.runs = 1, !.first = files]
    /\ limits = [calls |-> MaxMfaCalls, boots |-> 1, audits |-> MaxMfaCalls]
    /\ logs = EmptyLogs /\ audits = <<>> /\ sockets = {}
    /\ reader = IdleReader /\ tokens = {}
    /\ resp = NoResponse /\ config = [admin2faEnforce |-> FALSE]

NextMfa ==
    \/ \E i \in 1..Len(writeQueue) : TaskStart(i)
    \/ \E i \in 1..Len(writeQueue) : TaskWrite(i)
    \/ \E p \in MfaPasswords, o \in MfaOtps : resp = NoResponse /\ login("alice", p, o)
    \/ \E m \in BOOLEAN, o \in MfaOtps : twoFactorVerify(AdminSession(m), o)
    \/ \E m \in BOOLEAN, p \in MfaPasswords, o \in MfaOtps :
          twoFactorDisable(AdminSession(m), p, o)
    \/ twoFactorCalled
    \/ adminAnswered
    \/ requestOver
    \/ \E i \in 1..Len(audits), f \in {"admins", "deact"} : AdminsRead(i, f)
    \/ \E i \in 1..Len(audits) : PushToSockets(i, FALSE)

SpecMfa == InitMfa /\ [][NextMfa]_vars

\* a token is signed and set as the session cookie in the step
Issued == resp.cookie = NoToken /\ resp'.cookie # NoToken

\* the login answered in the step passed verifyTwoFactorForLogin against the
\* enabled record of the account
LoginVerified ==
    /\ resp'.route = "POST /login"
    /\ hasTwoFactorEnabled(files.twofa, resp'.cookie.sub)
    /\ validOtp(resp'.req.otp)
    /\ verify(decryptSecret(files.twofa[resp'.cookie.sub].secret), otpTrim(resp'.req.otp))

\* the enableTwoFactor of the request answered in the step has succeeded
EnableConfirmed ==
    /\ resp.route = "POST /security/2fa/verify" /\ resp.pc = "call"
    /\ writeQueue[resp.task].op = "2fa-verify" /\ writeQueue[resp.task].pc = "ok"
    /\ writeQueue[resp.task].username = resp'.cookie.sub
    /\ hasTwoFactorEnabled(files.twofa, resp'.cookie.sub)

\* C33: a token is signed only by a login, by POST /security/2fa/verify and
\* by POST /security/2fa/disable, and the token is in the set jwt.verify
\* accepts; its mfa flag is true exactly when it is signed by a login that
\* has passed verifyTwoFactorForLogin against the enabled record or by the
\* verify route after enableTwoFactor has succeeded.
C33_MfaTokenOnlyAfterTotp ==
    [][/\ tokens' # tokens => Issued
       /\ Issued =>
            /\ resp'.cookie \in tokens'
            /\ resp'.route \in {"POST /login", "POST /security/2fa/verify",
                                "POST /security/2fa/disable"}
            /\ resp'.cookie.mfa <=> (LoginVerified \/ EnableConfirmed)]_vars

\* an MFA-verified token was signed by the verify route after a pending
\* setup was confirmed
C33_Witness ==
    /\ resp.route = "POST /security/2fa/verify"
    /\ resp.cookie \in tokens /\ resp.cookie.mfa
    /\ hasTwoFactorEnabled(files.twofa, "alice")
    /\ \E t \in tokens : ~t.mfa

----------------------------------------------------------------------------
(* SpecDurable: audited actions with two admins connected, on a disk whose *)
(* fs.appendFile can fail.                                                 *)

MaxDurableCalls == 2   \* audited actions

\* fs.appendFile of a queued appendLine rejects (ENOSPC, EIO, EACCES) and
\* the line is not in the log
appendFailed(i) ==
    /\ writeQueue[i].pc = "queued"
    /\ writeQueue[i].op = "append"
    /\ CanStart(writeQueue, i)
    /\ writeQueue' = [writeQueue EXCEPT ![i] = [@ EXCEPT !.pc = "err", !.code = "EIO"]]
    /\ UNCHANGED <<resp, config, files, boot, limits, authVars, auditVars>>

\* an appendLine of the event on the log has rejected
Rejected(q, file, event) ==
    \E j \in 1..Len(q) :
        q[j].op = "append" /\ q[j].file = file /\ q[j].line.event = event /\ q[j].pc = "err"

\* the await of logUserActivity, or of the Promise.all over the notification
\* lines, rejects: recordUserAction throws there and the route answers 500
auditRejected(i) ==
    /\ \/ audits[i].pc = "log" /\ Rejected(writeQueue, "activity", i)
       \/ audits[i].pc = "notify" /\ Rejected(writeQueue, "notif", i)
    /\ audits' = [audits EXCEPT ![i] =
           [@ EXCEPT !.pc = "done", !.pend = {}, !.snap = EmptyStore, !.response = 500]]
    /\ UNCHANGED <<resp, config, files, writeQueue, logs, sockets, authVars, boot, limits>>

InitDurable ==
    /\ \E d \in SUBSET {"alice"} :
         files = [EmptyStore EXCEPT
                    !.admins = MapSet(MapSet(EmptyMap, ConfiguredPrimary,
                                             bcryptHash(primaryAdminPassword, 1)),
                                      "alice", bcryptHash("StrongPass1!", 1)),
                    !.primary = {ConfiguredPrimary},
                    !.users = MapSet(EmptyMap, "bob", bcryptHash("StrongPass1!", 1)),
                    !.deact = d]
    /\ writeQueue = <<[Task("init", "", "", "", "undefined") EXCEPT !.pc = "ok", !.code = "OK"]>>
    /\ boot = [FirstStart(EmptyStore) EXCEPT !.runs = 1, !.first = files]
    /\ limits = [calls |-> MaxDurableCalls, boots |-> 1, audits |-> MaxDurableCalls]
    /\ logs = EmptyLogs /\ audits = <<>> /\ sockets = {}
    /\ reader = IdleReader /\ tokens = {}
    /\ resp = NoResponse /\ config = [admin2faEnforce |-> FALSE]

NextDurable ==
    \/ \E i \in 1..Len(writeQueue) : TaskStart(i)
    \/ \E i \in 1..Len(writeQueue) : TaskWrite(i)
    \/ \E i \in 1..Len(writeQueue) : appendFailed(i)
    \/ \E u \in PushAdmins : registerSocket(u, 1)
    \/ \E u \in PushAdmins : unregisterSocket(u, 1)
    \/ postAction("bob", "prayer_logged")
    \/ \E i \in 1..Len(audits), f \in {"admins", "deact"} : AdminsRead(i, f)
    \/ \E i \in 1..Len(audits), threw \in BOOLEAN : PushToSockets(i, threw)
    \/ \E i \in 1..Len(audits) : auditRejected(i)

SpecDurable == InitDurable /\ [][NextDurable]_vars

\* C35: in the step that sends envelopes of an action, the notification log
\* already holds the line of every recipient of the action, so the line of
\* each envelope's recipient among them, and no appendLine of the action has
\* rejected; an action with a rejected notification line has sent nothing.
C35_DurableBeforeLive ==
    [][\A i \in 1..Len(audits) :
         /\ audits'[i].pushed # audits[i].pushed =>
              /\ Range(audits[i].adminUsernames) \subseteq RecipientsOf(logs.notif, i)
              /\ \A e \in audits'[i].pushed : e.admin \in RecipientsOf(logs.notif, i)
              /\ ~Rejected(writeQueue, "notif", i)
         /\ Rejected(writeQueue', "notif", i) => audits'[i].pushed = {}]_vars

\* one action has been pushed to the connections of both admins, and another,
\* one of whose notification lines was not appended, has ended with both
\* connected and nothing sent
C35_Witness ==
    /\ sockets = {Socket(u, 1) : u \in PushAdmins}
    /\ \E i, j \in 1..Len(audits) :
         /\ Cardinality(audits[i].pushed) = 2
         /\ audits[j].pc = "done" /\ Rejected(writeQueue, "notif", j)
         /\ RecipientsOf(logs.notif, j) # {}
         /\ audits[j].pushed = {}

----------------------------------------------------------------------------
(* SpecUpdate: updateUser called by one caller, who sees how each call     *)
(* ends, while createUser and deleteUser calls of others are in the queue. *)

MaxUpdateCalls == 2
UpdateUsernames == {" Alice ", "bob", "carol", "al"}

\* what updateUser throws before it reaches the queue, "" when it enqueues
updateUserThrows(rawUsername, password, isActive) ==
    IF ~validateUsername(rawUsername) THEN "INVALID_USERNAME"
    ELSE IF password # "" /\ ~validatePassword(password) THEN "WEAK_PASSWORD"
    ELSE IF isActive = "undefined" /\ password = "" THEN "NO_UPDATES"
    ELSE ""

\* updateUser up to the return of enqueueWrite
updateAccount(rawUsername, password, isActive) ==
    /\ Listening
    /\ resp = NoResponse
    /\ LET request == [NoResponse EXCEPT
                          !.route = "updateUser", !.ran = TRUE,
                          !.req = [username |-> rawUsername, password |-> password,
                                   otp |-> "", isActive |-> isActive]]
           thrown == updateUserThrows(rawUsername, password, isActive)
       IN IF thrown # ""
          THEN /\ resp' = Answered(request, 400, thrown)
               /\ UNCHANGED writeQueue
          ELSE /\ Budget
               /\ writeQueue' = enqueueWrite(writeQueue,
                      Task("update", normalizeUsername(rawUsername), password, "", isActive))
               /\ resp' = [request EXCEPT !.pc = "call", !.task = Len(writeQueue) + 1]
    /\ UNCHANGED <<files, logs, audits, sockets, reader, tokens, config, boot, limits>>

\* the promise updateUser returned settles
updateReturned ==
    /\ resp.pc = "call" /\ resp.route = "updateUser"
    /\ Settled(writeQueue[resp.task])
    /\ resp' = IF writeQueue[resp.task].pc = "err"
               THEN Answered(resp, StatusOfCode(writeQueue[resp.task].code),
                             writeQueue[resp.task].code)
               ELSE Answered(resp, 200, "")
    /\ UNCHANGED <<files, writeQueue, logs, audits, sockets, reader, tokens, config, boot, limits>>

InitUpdate ==
    /\ \E d \in SUBSET {"alice", "bob"} :
         files = [EmptyStore EXCEPT
                    !.admins = MapSet(MapSet(EmptyMap, ConfiguredPrimary,
                                             bcryptHash(primaryAdminPassword, 1)),
                                      "alice", bcryptHash("StrongPass1!", 1)),
                    !.primary = {ConfiguredPrimary},
                    !.users = MapSet(EmptyMap, "bob", bcryptHash("StrongPass1!", 1)),
                    !.deact = d]
    /\ writeQueue = <<[Task("init", "", "", "", "undefined") EXCEPT !.pc = "ok", !.code = "OK"]>>
    /\ boot = [FirstStart(EmptyStore) EXCEPT !.runs = 1, !.first = files]
    /\ limits = [calls |-> MaxUpdateCalls, boots |-> 1, audits |-> 0]
    /\ logs = EmptyLogs /\ audits = <<>> /\ sockets = {}
    /\ reader = IdleReader /\ tokens = {}
    /\ resp = NoResponse /\ config = [admin2faEnforce |-> FALSE]

NextUpdate ==
    \/ \E i \in 1..Len(writeQueue) : TaskStart(i)
    \/ \E i \in 1..Len(writeQueue) : TaskWrite(i)
    \/ \E u \in UpdateUsernames, p \in RawPasswords \cup {""},
          a \in {"undefined", "true", "false"} : updateAccount(u, p, a)
    \/ updateReturned
    \/ requestOver
    \/ createUser("carol", "StrongPass1!", Roles.USER)
    \/ \E u \in {"bob", "carol"} : deleteUser(u)

SpecUpdate == InitUpdate /\ [][NextUpdate]_vars

\* the step is one of the queue task i
ActsIn(i) == writeQueue'[i] # writeQueue[i]

\* every account but username has the hash and the active flag it had, and
\* the three sets of names are the ones they were
FrameOf(username) ==
    /\ DOMAIN files'.users = DOMAIN files.users
    /\ DOMAIN files'.admins = DOMAIN files.admins
    /\ files'.primary = files.primary
    /\ files'.twofa = files.twofa
    /\ files'.deact \ {username} = files.deact \ {username}
    /\ \A v \in (DOMAIN files.users \cup DOMAIN files.admins) \ {username} :
          HashOf(files', v) = HashOf(files, v)

\* C36: a step of an updateUser task leaves the names of the users, admins
\* and primary-admins files and the hash and active flag of every other
\* account as they were, changes the account's hash only when a password was
\* supplied and its active flag only when isActive was; the task of an
\* unknown account throws USER_NOT_FOUND and a task that throws writes
\* nothing; a call with a valid name and neither field throws NO_UPDATES
\* before the queue, and a call that throws before the queue changes no file
\* and enqueues nothing.
C36_UpdateFrame ==
    [][/\ \A i \in Calls :
            (writeQueue[i].op = "update" /\ ActsIn(i)) =>
                LET t == writeQueue[i]
                IN /\ FrameOf(t.username)
                   /\ HashOf(files', t.username) # HashOf(files, t.username) => t.password # ""
                   /\ (t.username \in files'.deact) # (t.username \in files.deact) =>
                          t.isActive # "undefined"
                   /\ (Starting(i) /\ Status(files, t.username).role = "null") =>
                          writeQueue'[i].pc = "err" /\ writeQueue'[i].code = "USER_NOT_FOUND"
                   /\ writeQueue'[i].pc = "err" => files' = files /\ writeQueue'[i].writes = <<>>
       /\ (resp = NoResponse /\ resp'.route = "updateUser") =>
            LET r == resp'.req
            IN /\ (validateUsername(r.username) /\ r.password = "" /\ r.isActive = "undefined")
                     => resp'.code = "NO_UPDATES"
               /\ resp'.pc = "" => resp'.status = 400 /\ files' = files /\ writeQueue' = writeQueue
       /\ (resp.pc = "call" /\ resp'.pc = "" /\ resp.route = "updateUser") =>
            (resp'.code = "USER_NOT_FOUND" <=> writeQueue[resp.task].pc = "err")]_vars

\* a call with a password and isActive false on alice, written " Alice ",
\* has succeeded while bob was deleted, and a later call with neither field
\* has thrown NO_UPDATES
C36_Witness ==
    /\ resp.route = "updateUser" /\ resp.code = "NO_UPDATES"
    /\ "bob" \notin DOMAIN files.users
    /\ \E i \in Calls :
         /\ writeQueue[i].op = "update" /\ writeQueue[i].pc = "ok"
         /\ writeQueue[i].username = "alice" /\ writeQueue[i].password # ""
         /\ writeQueue[i].isActive = "false" /\ writeQueue[i].ahead >= 1
         /\ HashOf(files, "alice") # bcryptHash("StrongPass1!", 1)
         /\ "alice" \in files.deact

----------------------------------------------------------------------------
(* SpecStore: the credential store started on an empty data directory,     *)
(* with up to MaxStoreCalls calls on two names after the start.            *)

MaxStoreCalls == 3
StoreUsernames == {"bob", "root"}

InitStore ==
    /\ files = EmptyStore
    /\ writeQueue = enqueueWrite(<<>>, Task("init", "", "", "", "undefined"))
    /\ boot = FirstStart(files)
    /\ limits = [calls |-> MaxStoreCalls, boots |-> 1, audits |-> 0]
    /\ logs = EmptyLogs /\ audits = <<>> /\ sockets = {}
    /\ reader = IdleReader /\ tokens = {}
    /\ resp = NoResponse /\ config = [admin2faEnforce |-> FALSE]

NextStore ==
    \/ \E i \in 1..Len(writeQueue) : TaskStart(i)
    \/ \E i \in 1..Len(writeQueue) : TaskWrite(i)
    \/ \E u \in StoreUsernames, r \in {Roles.USER, Roles.ADMIN} :
          createUser(u, "StrongPass1!", r)
    \/ \E u \in StoreUsernames, a \in {"true", "false"} : updateUser(u, "", a)
    \/ \E u \in StoreUsernames : deleteUser(u)
    \/ \E u \in StoreUsernames : promoteUserToAdmin(u)

SpecStore == InitStore /\ [][NextStore]_vars

\* the store is initialized and every call made has completed
Quiescent == writeQueue # <<>> /\ \A i \in Calls : Settled(writeQueue[i])

----------------------------------------------------------------------------
(* SpecSocket: connections to the notification channel that open, are      *)
(* authenticated and close, the close event of a connection arriving at    *)
(* any moment after the connection event.                                  *)

MaxSockets == 2        \* connections registered under one account

\* a connection object held in wsByAdmin: readyState is 1 (OPEN) or 3 (CLOSED)
Connection(username, socket, readyState) ==
    [username |-> username, id |-> socket, readyState |-> readyState]

\* the close event of a connection whose handler is still awaiting
\* authenticateToken: no listener is attached yet, and nothing runs
closeDuringHandshake ==
    /\ reader.pc \in {"reading", "done"}
    /\ resp = NoResponse
    /\ resp' = [NoResponse EXCEPT !.route = "WS /ws/admin-notifications",
                                  !.pc = "handshake", !.status = 1006]
    /\ UNCHANGED <<files, writeQueue, logs, audits, sockets, reader, tokens, config, boot, limits>>

\* the connection handler from the return of authenticateToken to its end:
\* registerSocket, socket.send, socket.on("close").  On a connection that
\* has closed meanwhile, send does nothing and the listener is attached
\* after the event it waits for.
connectionHandshake ==
    /\ reader.pc = "done"
    /\ resp = NoResponse \/ resp.pc = "handshake"
    /\ LET closed == resp.pc = "handshake"
           request == [NoResponse EXCEPT !.route = "WS /ws/admin-notifications",
                                         !.user = ResolvedUser, !.cookie = reader.token]
       IN IF reader.code # "OK"
          THEN /\ resp' = Answered(request, 1008, "Unauthorized")
               /\ UNCHANGED sockets
          ELSE IF ResolvedUser.role \notin {"primary_admin", "admin"}
          THEN /\ resp' = Answered(request, 1008, "Forbidden")
               /\ UNCHANGED sockets
          ELSE \E id \in 1..MaxSockets :
               /\ \A s \in sockets : ~(s.username = ResolvedUser.username /\ s.id = id)
               /\ sockets' = sockets \cup
                      {Connection(ResolvedUser.username, id, IF closed THEN 3 ELSE 1)}
               /\ resp' = [Answered(request, IF closed THEN 1006 ELSE 101, "")
                              EXCEPT !.ran = TRUE]
    /\ reader' = IdleReader
    /\ UNCHANGED <<files, writeQueue, logs, audits, tokens, config, boot, limits>>

\* the close event of a connection whose listener is attached: the listener
\* calls unregisterSocket
closeRegistered(s) ==
    /\ s \in sockets
    /\ s.readyState = 1
    /\ sockets' = sockets \ {s}
    /\ UNCHANGED <<resp, config, files, writeQueue, logs, audits, authVars, boot, limits>>

InitSocket ==
    /\ files = [EmptyStore EXCEPT
                    !.admins = MapSet(MapSet(EmptyMap, ConfiguredPrimary,
                                             bcryptHash(primaryAdminPassword, 1)),
                                      "alice", bcryptHash("StrongPass1!", 1)),
                    !.primary = {ConfiguredPrimary},
                    !.users = MapSet(EmptyMap, "bob", bcryptHash("StrongPass1!", 1))]
    /\ writeQueue = <<[Task("init", "", "", "", "undefined") EXCEPT !.pc = "ok", !.code = "OK"]>>
    /\ boot = [FirstStart(EmptyStore) EXCEPT !.runs = 1, !.first = files]
    /\ limits = [calls |-> 1, boots |-> 1, audits |-> 0]
    /\ logs = EmptyLogs /\ audits = <<>> /\ sockets = {}
    /\ reader = IdleReader
    /\ tokens = {SessionToken(ConfiguredPrimary, Roles.PRIMARY_ADMIN, FALSE),
                 SessionToken("alice", Roles.ADMIN, FALSE),
                 SessionToken("bob", Roles.USER, FALSE)}
    /\ resp = NoResponse /\ config = [admin2faEnforce |-> FALSE]

NextSocket ==
    \/ \E t \in tokens \cup {NoToken} :
          resp = NoResponse /\ reader.pc = "idle" /\ authenticateToken(t)
    \/ \E f \in StoreFiles : TokenRead(f)
    \/ closeDuringHandshake
    \/ connectionHandshake
    \/ \E s \in sockets : closeRegistered(s)
    \/ requestOver

SpecSocket == InitSocket /\ [][NextSocket]_vars

\* C38 (as claimed): a connection that has closed and whose handshake
\* processing has finished is not in the registry, a connection that closed
\* while its authentication was in progress included.
C38_SocketRegistryCleanup == \A s \in sockets : s.readyState # 3

----------------------------------------------------------------------------
(* SpecLive: an audited action pushed while an admin who connected earlier *)
(* is deactivated, reactivated or deleted.                                 *)

MaxLiveCalls == 3      \* calls made: credential calls and the audited action

InitLive ==
    /\ files = [EmptyStore EXCEPT
                    !.admins = MapSet(MapSet(EmptyMap, ConfiguredPrimary,
                                             bcryptHash(primaryAdminPassword, 1)),
                                      "alice", bcryptHash("StrongPass1!", 1)),
                    !.primary = {ConfiguredPrimary}]
    /\ writeQueue = <<[Task("init", "", "", "", "undefined") EXCEPT !.pc = "ok", !.code = "OK"]>>
    /\ boot = [FirstStart(EmptyStore) EXCEPT !.runs = 1, !.first = files]
    /\ limits = [calls |-> MaxLiveCalls, boots |-> 1, audits |-> 1]
    /\ logs = EmptyLogs /\ audits = <<>> /\ sockets = {}
    /\ reader = IdleReader /\ tokens = {}
    /\ resp = NoResponse /\ config = [admin2faEnforce |-> FALSE]

NextLive ==
    \/ \E i \in 1..Len(writeQueue) : TaskStart(i)
    \/ \E i \in 1..Len(writeQueue) : TaskWrite(i)
    \/ registerSocket("alice", 1)
    \/ \E a \in {"true", "false"} : updateUser("alice", "", a)
    \/ deleteUser("alice")
    \/ postAction(ConfiguredPrimary, "prayer_logged")
    \/ \E i \in 1..Len(audits), f \in {"admins", "deact"} : AdminsRead(i, f)
    \/ \E i \in 1..Len(audits) : PushToSockets(i, FALSE)

SpecLive == InitLive /\ [][NextLive]_vars

\* C40 (as claimed): an envelope of an action is sent only to connections
\* of accounts that were admin-class and active at some moment of the
\* action's recordUserAction call, so an admin deactivated or deleted before
\* the call receives none on a connection opened earlier.
C40_LivePushFollowsAdminStatus ==
    \A i \in 1..Len(audits) :
        \A e \in audits[i].pushed : \E S \in audits[i].seen : e.admin \in S

----------------------------------------------------------------------------
(* SpecBoot: the server started, and started again, on a data directory    *)
(* whose admins and primary-admins files hold any contents.                *)

OldHash == bcryptHash("OldPassword1", 1)
BootNames == {primaryAdminUsername, "alice"}
BootAdminMaps == UNION {[S -> {OldHash}] : S \in SUBSET BootNames}
BootPrimarySets == SUBSET (BootNames \cup {"bob"})

InitBoot ==
    /\ \E a \in BootAdminMaps, p \in BootPrimarySets :
           files = [EmptyStore EXCEPT !.admins = a, !.primary = p]
    /\ writeQueue = enqueueWrite(<<>>, Task("init", "", "", "", "undefined"))
    /\ boot = FirstStart(files)
    /\ limits = [calls |-> MaxBootCalls, boots |-> MaxBoots, audits |-> 0]
    /\ logs = EmptyLogs /\ audits = <<>> /\ sockets = {}
    /\ reader = IdleReader /\ tokens = {}
    /\ resp = NoResponse /\ config = [admin2faEnforce |-> FALSE]

\* the process ends with an idle queue and index.js runs again on the same directory
Restart ==
    /\ \A i \in 1..Len(writeQueue) : Settled(writeQueue[i])
    /\ boot.runs < limits.boots
    /\ writeQueue' = enqueueWrite(<<>>, Task("init", "", "", "", "undefined"))
    /\ UNCHANGED <<resp, config, files, boot, limits, authVars, auditVars>>

NextBoot ==
    \/ Next
    \/ Restart

SpecBoot == InitBoot /\ [][NextBoot]_vars

\* C6 (as claimed): for any startup contents, once initializeCredentialStore has
\* completed the configured primary-admin username is in the admins file with
\* role primary_admin, and stays so.
C6_ConfiguredPrimaryExists ==
    boot.runs >= 1 =>
        (Has(files.admins, ConfiguredPrimary) /\ RoleOf(ConfiguredPrimary) = Roles.PRIMARY_ADMIN)

\* C6 (amended): once initializeCredentialStore has completed, some username is
\* in both the primary-admins and the admins file (role primary_admin), and
\* stays so; it is the configured username whenever the primary-admins file
\* found at startup named it or named no account of the admins file.
C6_SomePrimaryAdminExists ==
    boot.runs >= 1 =>
        /\ \E u \in files.primary : RoleOf(u) = Roles.PRIMARY_ADMIN
        /\ (\/ ConfiguredPrimary \in boot.start.primary
            \/ boot.start.primary \cap DOMAIN boot.start.admins = {})
           => RoleOf(ConfiguredPrimary) = Roles.PRIMARY_ADMIN

\* startup found another primary admin: the configured one was not created, and a
\* later call has settled
C6_Witness ==
    /\ boot.runs >= 1
    /\ ~Has(files.admins, ConfiguredPrimary)
    /\ Len(writeQueue) >= 2 /\ Settled(writeQueue[2])

\* C7: on an initially empty data directory, after each of two successive runs
\* of initializeCredentialStore there is exactly one account, the configured
\* primary admin with role primary_admin, and after the second run the admins
\* and primary-admins files are as the first run left them.
C7_BootstrapIdempotent ==
    (boot.start = EmptyStore /\ ~boot.calls /\ boot.runs >= 1 /\ Listening) =>
        /\ Accounts = {ConfiguredPrimary}
        /\ RoleOf(ConfiguredPrimary) = Roles.PRIMARY_ADMIN
        /\ files.admins = boot.first.admins
        /\ files.primary = boot.first.primary

C7_Witness ==
    boot.start = EmptyStore /\ ~boot.calls /\ boot.runs = 2 /\ Listening

====
